---- MODULE Spec2Model ----
(***************************************************************************)
(* a2acli: the streaming session of `send` and `watch`.                    *)
(*                                                                         *)
(* StartSpec is the command up to the start of the pump (the card is       *)
(* resolved, createClient selects the transport); Spec is the session from *)
(* there on, in both modes; TUISpec is the interactive session with the    *)
(* program's event loop running.                                           *)
(*                                                                         *)
(* A pump goroutine ranges over the client's event sequence and hands      *)
(* every (event, error) pair over an unbuffered channel; the consumer is   *)
(* either runRaw (--no-tui) or the Bubble Tea program of runTUI, whose     *)
(* model folds the events into messages/status/taskID and saves artifacts. *)
(*                                                                         *)
(* Strings the code takes apart (file names, paths, texts) are sequences   *)
(* of one-character strings; all other strings are TLA+ strings.           *)
(***************************************************************************)
EXTENDS Integers, Sequences, FiniteSets, TLC

\* ------------------------------------------------------------------ bounds
\* Longest prefix of the event sequence the pump pulls in one session.
MaxSrc == 3
\* Largest reading of the wall clock (seconds) during a session.
MaxNow == 1
\* Most saves the file system fails in one session.
MaxIOFail == 1
\* Most events applied to the model when only the model is followed.
MaxApplied == 6
\* Most parts of an artifact handed to saveArtifact directly.
MaxParts == 3
\* Largest index argument handed to saveArtifact directly.
MaxIndex == 1
MaxArtifacts == 2

\* ------------------------------------------------------------- strings
Str_out_json == <<"o", "u", "t", ".", "j", "s", "o", "n">>
Str_report_txt == <<"r", "e", "p", "o", "r", "t", ".", "t", "x", "t">>
Str_hello == <<"h", "e", "l", "l", "o">>
Str_artifact_ == <<"a", "r", "t", "i", "f", "a", "c", "t", "_">>
Str_txt == <<".", "t", "x", "t">>
Str_ok == <<"o", "k">>
Str_dir == <<"d">>
Str_dot == <<".">>
Empty == <<>>
Str_grpc == <<"g", "r", "p", "c">>
Str_GRPC == <<"G", "R", "P", "C">>
Str_jsonrpc == <<"j", "s", "o", "n", "r", "p", "c">>
Str_json_rpc == <<"j", "s", "o", "n", "-", "r", "p", "c">>
Str_rest == <<"r", "e", "s", "t">>
Str_httpjson == <<"h", "t", "t", "p", "j", "s", "o", "n">>
Str_http_json == <<"h", "t", "t", "p", "+", "j", "s", "o", "n">>
Str_quic == <<"q", "u", "i", "c">>

\* strings.ToLower on ASCII.
UpperLetters == <<"A", "B", "C", "D", "E", "F", "G", "H", "I", "J", "K", "L", "M",
                  "N", "O", "P", "Q", "R", "S", "T", "U", "V", "W", "X", "Y", "Z">>
LowerLetters == <<"a", "b", "c", "d", "e", "f", "g", "h", "i", "j", "k", "l", "m",
                  "n", "o", "p", "q", "r", "s", "t", "u", "v", "w", "x", "y", "z">>
ToLowerChar(c) ==
    IF \E i \in 1..Len(UpperLetters) : UpperLetters[i] = c
    THEN LowerLetters[CHOOSE i \in 1..Len(UpperLetters) : UpperLetters[i] = c]
    ELSE c
ToLower(s) == [i \in 1..Len(s) |-> ToLowerChar(s[i])]

\* filepath.Ext: the suffix beginning at the final dot of the final element.
RECURSIVE ExtFrom(_, _)
ExtFrom(s, i) ==
    IF i = 0 THEN <<>>
    ELSE IF s[i] = "/" THEN <<>>
    ELSE IF s[i] = "." THEN SubSeq(s, i, Len(s))
    ELSE ExtFrom(s, i - 1)

Ext(s) == ExtFrom(s, Len(s))

\* strings.TrimSuffix
TrimSuffix(s, suffix) ==
    IF /\ Len(suffix) <= Len(s)
       /\ SubSeq(s, Len(s) - Len(suffix) + 1, Len(s)) = suffix
    THEN SubSeq(s, 1, Len(s) - Len(suffix))
    ELSE s

\* %d of a non-negative int
Digit(n) == CASE n = 0 -> "0" [] n = 1 -> "1" [] n = 2 -> "2" [] n = 3 -> "3"
              [] n = 4 -> "4" [] n = 5 -> "5" [] n = 6 -> "6" [] n = 7 -> "7"
              [] n = 8 -> "8" [] n = 9 -> "9"

RECURSIVE Itoa(_)
Itoa(n) == IF n < 10 THEN <<Digit(n)>> ELSE Itoa(n \div 10) \o <<Digit(n % 10)>>

\* filepath.Join(dir, name) for a clean dir and a clean relative name: empty
\* elements are ignored and Clean drops a leading "./".
Join(dir, name) ==
    IF dir = <<>> \/ dir = Str_dot THEN name ELSE dir \o <<"/">> \o name

\* ------------------------------------------------------------- the a2a types
\* a2a.Part: Content is a2a.Text or a2a.Data.  A Data payload is the map
\* {"k": v}, written <<"k", v>>, with v = "1" the number 1 and v = "N" a NaN,
\* which encoding/json refuses to encode.
Text(t) == [kind |-> "text", v |-> t]
Data(d) == [kind |-> "data", v |-> d]
\* A part whose Content is neither: a2a.URL or a2a.Raw.
URL(u) == [kind |-> "url", v |-> u]
DataObj == <<"k", "1">>
DataNaN == <<"k", "N">>

NoParts == <<>>

\* a2a.TaskState values that end a task.
TerminalStates == {"COMPLETED", "FAILED", "REJECTED"}

\* a2a.Event: *a2a.Message, *a2a.TaskStatusUpdateEvent or
\* *a2a.TaskArtifactUpdateEvent, as one record shape.  hasMsg: Status.Message
\* is non-nil; parts: the parts of the message, the status message or the
\* artifact; name: Artifact.Name.
Ev(type, taskID, state, hasMsg, name, parts) ==
    [type |-> type, taskID |-> taskID, state |-> state, hasMsg |-> hasMsg,
     name |-> name, parts |-> parts]

MessageEv(taskID, parts) == Ev("message", taskID, "", FALSE, Empty, parts)
StatusEv(taskID, state) == Ev("status", taskID, state, FALSE, Empty, NoParts)
StatusMsgEv(taskID, state, parts) == Ev("status", taskID, state, TRUE, Empty, parts)
ArtifactEv(taskID, name, parts) == Ev("artifact", taskID, "", FALSE, name, parts)
NilEv == Ev("nil", "", "", FALSE, Empty, NoParts)

\* The events a session's source may yield, by reference: streamMsg.Event
\* holds a pointer, written as the event's name here, and EventOf is the
\* event it points to.
Events == {"working", "completed", "failed", "message", "out.json", "report.txt", "unnamed"}
Nil == "nil"

EventOf(ref) ==
    CASE ref = "working"    -> StatusEv("t1", "WORKING")
      [] ref = "completed"  -> StatusMsgEv("", "COMPLETED", <<Data(DataObj), Text(Str_ok)>>)
      [] ref = "failed"     -> StatusMsgEv("t2", "FAILED", <<Text(Str_ok)>>)
      [] ref = "message"    -> MessageEv("t2", <<Text(Str_ok), Data(DataObj)>>)
      [] ref = "out.json"   -> ArtifactEv("t1", Str_out_json, <<Data(DataObj)>>)
      [] ref = "report.txt" -> ArtifactEv("t2", Str_report_txt, <<Text(Str_hello)>>)
      [] ref = "unnamed"    -> ArtifactEv("", Empty, <<Text(Str_ok), Data(DataNaN)>>)
      [] OTHER              -> NilEv

\* streamMsg{Event, Err}; Err = "" is a nil error.
StreamMsg(event, err) == [Event |-> event, Err |-> err]
ErrReset == "connection reset"
Items == { StreamMsg(e, "") : e \in Events } \cup { StreamMsg(Nil, ErrReset) }

\* ------------------------------------------------------------- encoding/json
\* json.MarshalIndent(dp, "", "  ") of a Data payload: (bytes, ok).
MarshalIndent(d) ==
    IF d[2] = "N"
    THEN [ok |-> FALSE, bytes |-> <<>>]
    ELSE [ok |-> TRUE,
          bytes |-> <<"{", "\n", " ", " ", "\"", d[1], "\"", ":", " ", d[2], "\n", "}">>]

\* json.Marshal(msg.Event) succeeds unless a Data part holds a value JSON
\* cannot represent.
MarshalOk(ev) ==
    \A i \in 1..Len(ev.parts) :
        ev.parts[i].kind = "data" => MarshalIndent(ev.parts[i].v).ok

\* The line fmt.Println(string(b)) writes for the event ref points to.
JSONLine(ref) == [line |-> "json", event |-> ref, text |-> ""]
\* The line "{\"error\": %q}\n" on stderr.
ErrorLine(err) == [line |-> "error", event |-> Nil, text |-> err]
\* The "Task ID: ..." hint of runTUI.
HintLine(taskID) == [line |-> "hint", event |-> Nil, text |-> taskID]

\* ------------------------------------------------------------- saveArtifact
\* Outcomes of the two system calls of saveArtifact: all fine, os.MkdirAll
\* fails (the file is untouched), os.WriteFile fails after it created or
\* truncated the file.
IOOutcomes == {"ok", "mkdir", "write"}

\* saveArtifact reads the clock only to name an unnamed artifact when no file
\* name is given (line 731).
ReadsClock(file, artifactName) == file = Empty /\ artifactName = Empty

\* A saveArtifact that never suffixes the explicit file name.
SavePath_NoSuffix(dir, file, artifactName, index, unix) ==
    IF file # Empty
    THEN IF dir # Empty THEN Join(dir, file) ELSE file
    ELSE LET d == IF dir = Empty THEN Str_dot ELSE dir
             filename == IF artifactName = Empty
                         THEN Str_artifact_ \o Itoa(unix) \o <<"_">> \o Itoa(index) \o Str_txt
                         ELSE artifactName
         IN  Join(d, filename)

\* The path saveArtifact computes (lines 712-734); unix is time.Now().Unix().
SavePath(dir, file, artifactName, index, unix) ==
    IF file # Empty
    THEN LET fName == IF index > 0
                      THEN TrimSuffix(file, Ext(file)) \o <<"_">> \o Itoa(index) \o Ext(file)
                      ELSE file
         IN  IF dir # Empty THEN Join(dir, fName) ELSE fName
    ELSE LET d == IF dir = Empty THEN Str_dot ELSE dir
             filename == IF artifactName = Empty
                         THEN Str_artifact_ \o Itoa(unix) \o <<"_">> \o Itoa(index) \o Str_txt
                         ELSE artifactName
         IN  Join(d, filename)

\* A loop that keeps the first Text or Data part's content.
RECURSIVE ContentBytes_FirstWins(_, _)
ContentBytes_FirstWins(parts, acc) ==
    IF parts = <<>> THEN acc
    ELSE LET p == Head(parts)
         IN  IF p.kind = "data" THEN MarshalIndent(p.v).bytes
             ELSE IF p.kind = "text" THEN p.v
             ELSE ContentBytes_FirstWins(Tail(parts), acc)

\* contentBytes after the loop over artifact.Parts (lines 740-748): every
\* Text or Data part overwrites it, a part of another kind leaves it; a
\* failed MarshalIndent yields nil.
RECURSIVE ContentBytes(_, _)
ContentBytes(parts, acc) ==
    IF parts = <<>> THEN acc
    ELSE LET p == Head(parts)
         IN  ContentBytes(Tail(parts),
                 IF p.kind = "data" THEN MarshalIndent(p.v).bytes
                 ELSE IF p.kind = "text" THEN p.v
                 ELSE acc)

\* saveArtifact(outDir, outFile, artifact, index): the returned (path, err)
\* and the file system it leaves.
SaveArtifact(fsys, dir, file, ev, index, unix, io) ==
    LET path == SavePath(dir, file, ev.name, index, unix)
        content == ContentBytes(ev.parts, <<>>)
        put(c) == [p \in DOMAIN fsys \cup {path} |-> IF p = path THEN c ELSE fsys[p]]
    IN  CASE io = "mkdir" -> [path |-> Empty, err |-> "mkdir failed", fs |-> fsys]
          [] io = "write" -> [path |-> Empty, err |-> "write failed", fs |-> put(<<>>)]
          [] OTHER        -> [path |-> path, err |-> "", fs |-> put(content)]

\* ------------------------------------------------------------- the TUI model
\* The number of log lines View shows (tui.go 231).
LogCapacity == 15
\* Longest preview of a part in the interactive log (tui.go, len(preview) > 200).
PreviewLimit == 200
Str_ellipsis == <<".", ".", ".">>

\* A string is the sequence of its characters; len(s) and s[:n] count bytes.
\* TwoByte stands for a character whose UTF-8 encoding has two bytes, and
\* LeadByte for the first byte of one, cut off from the second.
TwoByte == "U+00E9"
LeadByte == "0xC3"
Width(c) == IF c = TwoByte THEN 2 ELSE 1

\* len(s): every character is one or two bytes long.
ByteLen(s) == Len(s) + Cardinality({i \in 1..Len(s) : Width(s[i]) = 2})

\* len(s) > n.  No character is wider than two bytes, so a string of at most
\* n / 2 characters is within n bytes whatever its characters are.
LongerThan(s, n) == 2 * Len(s) > n /\ ByteLen(s) > n

\* The characters of s that lie wholly within its first n bytes.
WholeWithin(s, n) == Cardinality({i \in 1..Len(s) : ByteLen(SubSeq(s, 1, i)) <= n})

\* s[:n] for n <= len(s): the whole characters within the first n bytes, and
\* the lead byte of the next one when the cut falls inside it.
TakeBytes(s, n) ==
    LET whole == SubSeq(s, 1, WholeWithin(s, n))
    IN  IF ByteLen(whole) < n /\ Len(whole) < Len(s)
        THEN whole \o <<LeadByte>>
        ELSE whole

\* preview[:200] + "..." when len(preview) > 200 (tui.go 194-196, 200-202).
Preview(s, limit) ==
    IF LongerThan(s, limit) THEN TakeBytes(s, limit) \o Str_ellipsis ELSE s

\* One entry of model.messages.  kind names the format string; state, text and
\* err are what it was filled with.
LogLine(kind, state, text, err) == [kind |-> kind, state |-> state, text |-> text, err |-> err]

\* initialModel
InitialModel ==
    [messages |-> <<>>, status |-> "Initializing...", taskID |-> "",
     quitting |-> FALSE, err |-> "", width |-> 0, spinner |-> 0]

\* The lines the *a2a.Message case appends: one per Text part.
RECURSIVE AgentLines(_)
AgentLines(parts) ==
    IF parts = <<>> THEN <<>>
    ELSE (IF Head(parts).kind = "text"
          THEN <<LogLine("Agent:", "", Head(parts).v, "")>>
          ELSE <<>>) \o AgentLines(Tail(parts))

\* statusMsg of handleStatusUpdate: the text of Parts[0], when it is a Text.
StatusMsg(v) ==
    IF v.hasMsg /\ Len(v.parts) > 0 /\ v.parts[1].kind = "text" THEN v.parts[1].v ELSE Empty

\* model.handleStatusUpdate
HandleStatusUpdate(md, v) ==
    [md EXCEPT !.status = v.state,
               !.messages = IF StatusMsg(v) # Empty
                            THEN Append(@, LogLine("[%s] %s", v.state, StatusMsg(v), ""))
                            ELSE @]

\* The preview lines of handleArtifactUpdate: one per Data or Text part.
RECURSIVE PreviewLines(_)
PreviewLines(parts) ==
    IF parts = <<>> THEN <<>>
    ELSE LET p == Head(parts)
         IN  (IF p.kind = "data"
              THEN <<LogLine("Data (Preview):", "", Preview(MarshalIndent(p.v).bytes, PreviewLimit), "")>>
              ELSE IF p.kind = "text"
              THEN <<LogLine("Content (Preview):", "", Preview(p.v, PreviewLimit), "")>>
              ELSE <<>>)
             \o PreviewLines(Tail(parts))

\* A handleArtifactUpdate that reports a save only when it succeeded.
HandleArtifactUpdate_Silent(md, v, saved, res) ==
    [md EXCEPT !.status = "Artifact Received",
               !.messages = (Append(@, LogLine("ARTIFACT: %s", "", v.name, ""))
                             \o PreviewLines(v.parts))
                            \o (IF ~saved \/ res.err # "" THEN <<>>
                                ELSE <<LogLine("Saved to: %s", "", res.path, "")>>)]

\* model.handleArtifactUpdate; saved is TRUE when a destination is configured
\* and res is then what saveArtifact(m.outDir, outFile, *v.Artifact, 0) returned.
HandleArtifactUpdate(md, v, saved, res) ==
    [md EXCEPT !.status = "Artifact Received",
               !.messages = (Append(@, LogLine("ARTIFACT: %s", "", v.name, ""))
                             \o PreviewLines(v.parts))
                            \o (IF ~saved THEN <<>>
                                ELSE IF res.err # ""
                                THEN <<LogLine("Error saving: %v", "", Empty, res.err)>>
                                ELSE <<LogLine("Saved to: %s", "", res.path, "")>>)]

\* A capture that takes the event's task id even when it is empty.
CaptureTaskID_Overwrite(old, ev) == ev.taskID

\* The task id handleEvent keeps after an event (tui.go 126-128).
CaptureTaskID(old, ev) == IF ev.taskID # "" THEN ev.taskID ELSE old

\* A handleEvent that drops an ArtifactUpdate once the status is terminal.
HandleEvent_PhaseGuard(md, ev, saved, res) ==
    LET m1 == [md EXCEPT !.taskID = CaptureTaskID(@, ev)]
    IN  CASE ev.type = "message" ->
               [m1 EXCEPT !.messages = @ \o AgentLines(ev.parts),
                          !.status = "Received Message"]
          [] ev.type = "status" -> HandleStatusUpdate(m1, ev)
          [] ev.type = "artifact" /\ md.status \notin TerminalStates ->
               HandleArtifactUpdate(m1, ev, saved, res)
          [] OTHER -> m1

\* model.handleEvent for a record without error.
HandleEvent(md, ev, saved, res) ==
    LET m1 == [md EXCEPT !.taskID = CaptureTaskID(@, ev)]
    IN  CASE ev.type = "message" ->
               [m1 EXCEPT !.messages = @ \o AgentLines(ev.parts),
                          !.status = "Received Message"]
          [] ev.type = "status" -> HandleStatusUpdate(m1, ev)
          [] ev.type = "artifact" -> HandleArtifactUpdate(m1, ev, saved, res)
          [] OTHER -> m1

\* tea messages in flight to the program's event loop.
EventMsg(item) == [kind |-> "eventMsg", item |-> item]
DoneMsg == [kind |-> "doneMsg", item |-> StreamMsg(Nil, "")]
QuitMsg == [kind |-> "QuitMsg", item |-> StreamMsg(Nil, "")]
Keys == {"q", "ctrl+c", "x"}
KeyMsg(k) == [kind |-> "KeyMsg", item |-> StreamMsg(Nil, ""), key |-> k]
WindowSizeMsg(w) == [kind |-> "WindowSizeMsg", item |-> StreamMsg(Nil, ""), width |-> w]
TickMsg == [kind |-> "TickMsg", item |-> StreamMsg(Nil, "")]

\* An Update whose every returned command includes a waitForActivity.
Listens_Always(msg) == 1

\* The waitForActivity commands in what Update returns for a message
\* (tui.go 84-115, 117-149): one, and only for an eventMsg carrying no error.
Listens(msg) == IF msg.kind = "eventMsg" /\ msg.item.Err = "" THEN 1 ELSE 0

\* ------------------------------------------------------------- createClient
\* a2a.TransportProtocol values.
TransportProtocolGRPC == "GRPC"
TransportProtocolJSONRPC == "JSONRPC"
TransportProtocolHTTPJSON == "HTTP+JSON"

\* What createClient returns early with, or goes on with: err = "" is nil.
Selection(err, selected) == [err |-> err, selected |-> selected]
ErrUnsupported == "unsupported transport"

\* A switch that compares the flag as given, without strings.ToLower.
ForcedTransport_CaseSensitive(t) ==
    CASE t = Str_grpc -> Selection("", TransportProtocolGRPC)
      [] t = Str_jsonrpc -> Selection("", TransportProtocolJSONRPC)
      [] t = Str_rest \/ t = Str_httpjson -> Selection("", TransportProtocolHTTPJSON)
      [] OTHER -> Selection(ErrUnsupported, TransportProtocolJSONRPC)

\* The switch on strings.ToLower(transport) for a forced transport
\* (main.go 99-108).
ForcedTransport(t) ==
    LET l == ToLower(t)
    IN  CASE l = Str_grpc -> Selection("", TransportProtocolGRPC)
          [] l = Str_jsonrpc -> Selection("", TransportProtocolJSONRPC)
          [] l = Str_rest \/ l = Str_httpjson -> Selection("", TransportProtocolHTTPJSON)
          [] OTHER -> Selection(ErrUnsupported, TransportProtocolJSONRPC)

\* A dynamic selection that prefers JSON-RPC to gRPC.
DynamicTransport_JSONFirst(available) ==
    IF TransportProtocolJSONRPC \in available THEN TransportProtocolJSONRPC
    ELSE IF TransportProtocolGRPC \in available THEN TransportProtocolGRPC
    ELSE IF TransportProtocolHTTPJSON \in available THEN TransportProtocolHTTPJSON
    ELSE TransportProtocolJSONRPC

\* The dynamic selection over the card's bindings (main.go 110-122);
\* available is the set of keys the map holds true for.
DynamicTransport(available) ==
    IF TransportProtocolGRPC \in available THEN TransportProtocolGRPC
    ELSE IF TransportProtocolJSONRPC \in available THEN TransportProtocolJSONRPC
    ELSE IF TransportProtocolHTTPJSON \in available THEN TransportProtocolHTTPJSON
    ELSE TransportProtocolJSONRPC

\* A selection that falls back to the default on an unknown forced value.
SelectTransport_Fallback(t, bindings) ==
    IF t # Empty
    THEN Selection("", ForcedTransport(t).selected)
    ELSE Selection("", DynamicTransport(bindings))

\* "Determine transport" (main.go 97-123).
SelectTransport(t, bindings) ==
    IF t # Empty THEN ForcedTransport(t) ELSE Selection("", DynamicTransport(bindings))

\* The factory option the client is built with (main.go 125-133).
TransportOpt(selected) ==
    CASE selected = TransportProtocolGRPC -> "WithGRPCTransport"
      [] selected = TransportProtocolHTTPJSON -> "WithRESTTransport"
      [] OTHER -> "WithJSONRPCTransport"

\* The line createClient prints in interactive mode (main.go 135-141).
TransportLine(t, selected) ==
    [line |-> IF t = Empty THEN "Auto-selected transport" ELSE "Forcing transport",
     event |-> Nil, text |-> selected]

\* The lines fatalf writes to stderr before os.Exit(1), with a hint.
FatalLines(format, err) ==
    <<[line |-> "Error", event |-> Nil, text |-> format],
      [line |-> "Hint", event |-> Nil, text |-> err]>>

\* ------------------------------------------------------------- the session
VARIABLES
    transport,    \* --transport
    card,         \* the protocol bindings of the resolved card's interfaces
    mainPc,       \* runSend/runWatch: "resolve", "createClient", "start", "stream"
    selectedTransport, \* createClient's selectedTransport once determined
    client,       \* the transport option of the client built, NoClient before
    calls,        \* the requests sent to the service, in order
    art,          \* the artifact handed to saveArtifact when it is called directly
    command,      \* the subcommand run
    task,         \* the task a blocking call returned, NoTask before
    invocation,   \* the flags given, the environment and the config file
    serviceURL,   \* --service-url as the commands read it
    authToken,    \* --token as the commands read it
    disableTUI,   \* --no-tui
    outDir,       \* --out-dir
    outFile,      \* --file
    src,          \* the pairs the pump has pulled from the client's sequence
    pumpPc,       \* the pump goroutine: "range", "send", "return", "done"
    pumpItem,     \* the streamMsg the pump is sending
    closed,       \* close(stream) has run
    received,     \* the records the consumer side took from the channel
    rawPc,        \* runRaw: "recv", "body" ("off" in interactive mode)
    rawMsg,       \* msg of runRaw's loop
    waiting,      \* the number of waitForActivity commands blocked on <-m.sub
    pending,      \* tea messages sent to the program and not yet handled
    m,            \* the Bubble Tea model
    applied,      \* the events handleEvent has applied to the model
    stdout,       \* lines written to standard output since the stream opened
    stderr,       \* lines written to standard error
    fs,           \* the files under the destination: path -> content
    saves,        \* the saveArtifact calls of the session, in order
    now,          \* the last reading of time.Now().Unix()
    exited,       \* the process has ended
    exitCode      \* its exit status

vars == <<transport, card, mainPc, selectedTransport, client, calls, art, command, task,
          invocation, serviceURL, authToken,
          disableTUI, outDir, outFile, src, pumpPc, pumpItem, closed, received,
          rawPc, rawMsg, waiting, pending, m, applied, stdout, stderr, fs,
          saves, now, exited, exitCode>>

\* What the start of the command leaves to the session.
startVars == <<transport, card, mainPc, selectedTransport, client, calls>>
\* The flags and the start-up results: fixed while the stream is consumed.
settings == <<invocation, serviceURL, authToken>>
config == <<disableTUI, outDir, outFile, startVars, art, command, task, settings>>
pumpVars == <<src, pumpPc, pumpItem, closed>>
rawVars == <<rawPc, rawMsg>>
tuiVars == <<waiting, pending, m, applied>>
outVars == <<stdout, stderr>>
fsVars == <<fs, saves, now>>
exitVars == <<exited, exitCode>>

\* The default of --service-url (main.go 448).
DefaultURL == "http://127.0.0.1:9001"
\* A flag that was not given on the command line.
NotGiven == "(not given)"
\* An invocation: the values of --service-url, --token and --env, the
\* environment (variable name -> value) and the config file read.
Invocation(urlFlag, tokenFlag, envName, environ, file) ==
    [urlFlag |-> urlFlag, tokenFlag |-> tokenFlag, envName |-> envName,
     environ |-> environ, file |-> file]
NoFile == [default_env |-> "", envs |-> [e \in {} |-> ""]]
NoInvocation == Invocation(NotGiven, NotGiven, "", [n \in {} |-> ""], NoFile)

NoItem == StreamMsg(Nil, "")
NoClient == "nil"
\* a2a.Artifact: the fields saveArtifact reads.
Artifact(name, parts) == [name |-> name, parts |-> parts]
\* a2a.Task as the commands use it: the id, Status.State and the artifacts,
\* each written as the artifact update event that holds it.
Task(id, state, artifacts) == [id |-> id, state |-> state, artifacts |-> artifacts]
NoTask == Task("", "", <<>>)
NoArtifact == Artifact(Empty, NoParts)
ResolveCall == "GET agent card"

\* A session does not read what the start left (the transport, the card, the
\* client): they are fixed to one outcome of the start here.
\* The state when runSend/runWatch have made the channel and started the pump
\* (main.go 296-311), and runTUI has started the program (Init issued one
\* waitForActivity).
Init ==
    /\ transport = Empty
    /\ card = {TransportProtocolJSONRPC}
    /\ mainPc = "stream"
    /\ selectedTransport = TransportProtocolJSONRPC
    /\ client = TransportOpt(TransportProtocolJSONRPC)
    /\ calls = <<ResolveCall>>
    /\ art = NoArtifact
    /\ command = "send"
    /\ task = NoTask
    /\ invocation = NoInvocation
    /\ serviceURL = DefaultURL
    /\ authToken = ""
    /\ disableTUI \in BOOLEAN
    /\ outDir \in {Empty, Str_dir}
    /\ outFile \in {Empty, Str_out_json}
    /\ src = <<>>
    /\ pumpPc = "range"
    /\ pumpItem = NoItem
    /\ closed = FALSE
    /\ received = <<>>
    /\ rawPc = IF disableTUI THEN "recv" ELSE "off"
    /\ rawMsg = NoItem
    /\ waiting = IF disableTUI THEN 0 ELSE 1
    /\ pending = {}
    /\ m = InitialModel
    /\ applied = <<>>
    /\ stdout = <<>>
    /\ stderr = <<>>
    /\ fs = [p \in {} |-> <<>>]
    /\ saves = <<>>
    /\ now = 0
    /\ exited = FALSE
    /\ exitCode = 0

\* ---- the pump goroutine (main.go 297-305, 349-357)
\* A pump that skips the send for Message events.
OnYield_SkipMessages(item) == IF EventOf(item.Event).type = "message" THEN "range" ELSE "send"

\* A pump that asks the sequence for the next item without handing this one over.
OnYield_NoHandOff(item) == "range"

\* Where the pump goes when the sequence has yielded an item: the loop body.
OnYield(item) == "send"

\* A pump that goes on ranging after it sent an error.
AfterSend_NoReturn(item) == "range"

\* Where the pump goes after stream <- streamMsg{...}: return on an error.
AfterSend(item) == IF item.Err # "" THEN "return" ELSE "range"

\* The client's sequence yields its next pair.
PumpYield ==
    /\ ~exited /\ pumpPc = "range" /\ Len(src) < MaxSrc
    /\ \E item \in Items :
          /\ src' = Append(src, item)
          /\ pumpItem' = item
          /\ pumpPc' = OnYield(item)
    /\ UNCHANGED <<config, closed, received, rawVars, tuiVars, outVars, fsVars, exitVars>>

\* A pump without the deferred close: the loop is left and the channel stays
\* open.
PumpEnd_NoClose ==
    /\ ~exited /\ pumpPc = "range"
    /\ closed' = FALSE
    /\ pumpPc' = "done"
    /\ UNCHANGED <<config, src, pumpItem, received, rawVars, tuiVars, outVars, fsVars,
                   exitVars>>

\* The client's sequence ends: the loop is left, the function returns and the
\* deferred close(stream) runs.
PumpEnd ==
    /\ ~exited /\ pumpPc = "range"
    /\ closed' = TRUE
    /\ pumpPc' = "done"
    /\ UNCHANGED <<config, src, pumpItem, received, rawVars, tuiVars, outVars, fsVars,
                   exitVars>>

\* The return after an error was sent: the deferred close(stream) runs.
PumpClose ==
    /\ ~exited /\ pumpPc = "return"
    /\ closed' = TRUE
    /\ pumpPc' = "done"
    /\ UNCHANGED <<config, src, pumpItem, received, rawVars, tuiVars, outVars, fsVars,
                   exitVars>>

\* ---- saveArtifact as called by a streaming consumer
\* A destination is configured: outDir != "" || outFile != "".
HasDest == outDir # Empty \/ outFile # Empty

\* The index argument the streaming consumers pass to saveArtifact
\* (main.go 638, tui.go 181), given the number of earlier calls.
StreamIndex(earlier) == 0

\* The name an artifact occurrence is saved under before any suffix: the
\* explicit file name, else the artifact's name (empty: a generated name).
BaseName(ev) == IF outFile # Empty THEN outFile ELSE ev.name

\* What time.Now().Unix() may return in a save of ev: the clock never runs
\* backwards, and a save that does not read it leaves the last reading.
ClockReadings(ev) == IF ReadsClock(outFile, ev.name) THEN now..MaxNow ELSE {now}

\* What the file system may do to the next save.
IOChoices ==
    IF Cardinality({ i \in 1..Len(saves) : saves[i].err # "" }) < MaxIOFail
    THEN IOOutcomes
    ELSE {"ok"}

SaveRecord(ev, index, res) ==
    [base |-> BaseName(ev), index |-> index, path |-> res.path, err |-> res.err]

\* ---- runRaw (main.go 623-641)
\* A runRaw that writes the newest line first.
Println_Prepend(out, ref) == <<JSONLine(ref)>> \o out

\* fmt.Println(string(b)) for the encoded event.
Println(out, ref) == Append(out, JSONLine(ref))

\* What runRaw does to the exit state on an error record, had it no os.Exit.
RawErrorExit_Continue == exited' = FALSE /\ exitCode' = 0

\* os.Exit(1) after the error line.
RawErrorExit == exited' = TRUE /\ exitCode' = 1

\* for msg := range stream: the pump's send meets the receive.
RawRecv ==
    /\ ~exited /\ rawPc = "recv" /\ pumpPc = "send"
    /\ rawMsg' = pumpItem
    /\ received' = Append(received, pumpItem)
    /\ rawPc' = "body"
    /\ pumpPc' = AfterSend(pumpItem)
    /\ UNCHANGED <<config, src, pumpItem, closed, tuiVars, outVars, fsVars, exitVars>>

\* A loop body that removes the session's files before it exits on an error.
RawError_Rollback ==
    /\ ~exited /\ rawPc = "body" /\ rawMsg.Err # ""
    /\ stderr' = Append(stderr, ErrorLine(rawMsg.Err))
    /\ RawErrorExit
    /\ fs' = [p \in {} |-> <<>>]
    /\ UNCHANGED <<config, pumpVars, received, rawVars, tuiVars, stdout, saves, now>>

\* The loop body on a record carrying an error: one line on stderr, os.Exit(1).
RawError ==
    /\ ~exited /\ rawPc = "body" /\ rawMsg.Err # ""
    /\ stderr' = Append(stderr, ErrorLine(rawMsg.Err))
    /\ RawErrorExit
    /\ UNCHANGED <<config, pumpVars, received, rawVars, tuiVars, stdout, fsVars>>

\* The loop body on an event json.Marshal refuses: one line on stderr, continue.
RawEncodeFail ==
    /\ ~exited /\ rawPc = "body" /\ rawMsg.Err = "" /\ ~MarshalOk(EventOf(rawMsg.Event))
    /\ stderr' = Append(stderr, ErrorLine("failed to encode event to json"))
    /\ rawPc' = "recv"
    /\ UNCHANGED <<config, pumpVars, received, rawMsg, tuiVars, stdout, fsVars, exitVars>>

\* The loop body on an event: its JSON on stdout, then no save.
RawEvent ==
    /\ ~exited /\ rawPc = "body" /\ rawMsg.Err = "" /\ MarshalOk(EventOf(rawMsg.Event))
    /\ ~(EventOf(rawMsg.Event).type = "artifact" /\ HasDest)
    /\ stdout' = Println(stdout, rawMsg.Event)
    /\ rawPc' = "recv"
    /\ UNCHANGED <<config, pumpVars, received, rawMsg, tuiVars, stderr, fsVars, exitVars>>

\* The loop body on an artifact update with a destination: its JSON on stdout,
\* then saveArtifact, whose result is dropped.
RawArtifact ==
    /\ ~exited /\ rawPc = "body" /\ rawMsg.Err = "" /\ MarshalOk(EventOf(rawMsg.Event))
    /\ EventOf(rawMsg.Event).type = "artifact" /\ HasDest
    /\ stdout' = Println(stdout, rawMsg.Event)
    /\ \E io \in IOChoices, t \in ClockReadings(EventOf(rawMsg.Event)) :
          LET index == StreamIndex(Len(saves))
              res == SaveArtifact(fs, outDir, outFile, EventOf(rawMsg.Event), index, t, io)
          IN  /\ fs' = res.fs
              /\ saves' = Append(saves, SaveRecord(EventOf(rawMsg.Event), index, res))
              /\ now' = t
    /\ rawPc' = "recv"
    /\ UNCHANGED <<config, pumpVars, received, rawMsg, tuiVars, stderr, exitVars>>

\* The range over the closed channel ends; runRaw and the command return.
RawEnd ==
    /\ ~exited /\ rawPc = "recv" /\ closed
    /\ exited' = TRUE
    /\ exitCode' = 0
    /\ UNCHANGED <<config, pumpVars, received, rawVars, tuiVars, outVars, fsVars>>

\* ---- the Bubble Tea program (tui.go 67-149, main.go 611-621)
\* waitForActivity: msg, ok := <-m.sub meets the pump's send.
WaitRecv ==
    /\ ~exited /\ waiting > 0 /\ pumpPc = "send"
    /\ pending' = pending \cup {EventMsg(pumpItem)}
    /\ waiting' = waiting - 1
    /\ received' = Append(received, pumpItem)
    /\ pumpPc' = AfterSend(pumpItem)
    /\ UNCHANGED <<config, src, pumpItem, closed, rawVars, m, applied, outVars, fsVars,
                   exitVars>>

\* waitForActivity: the channel is closed, doneMsg.
WaitClosed ==
    /\ ~exited /\ waiting > 0 /\ closed
    /\ pending' = pending \cup {DoneMsg}
    /\ waiting' = waiting - 1
    /\ UNCHANGED <<config, pumpVars, received, rawVars, m, applied, outVars, fsVars,
                   exitVars>>

\* An Update that sets quitting on a quit key and returns no command.
KeyUpdate_NoQuit(md, k) ==
    IF k = "q" \/ k = "ctrl+c"
    THEN [model |-> [md EXCEPT !.quitting = TRUE], cmd |-> {}]
    ELSE [model |-> md, cmd |-> {}]

\* Update on a tea.KeyMsg (tui.go 86-91): the model and the messages of the
\* command it returns, tea.Quit on q and ctrl+c, nil on any other key.
KeyUpdate(md, k) ==
    IF k = "q" \/ k = "ctrl+c"
    THEN [model |-> [md EXCEPT !.quitting = TRUE], cmd |-> {QuitMsg}]
    ELSE [model |-> md, cmd |-> {}]

\* The user presses a key and Update handles the tea.KeyMsg: q and ctrl+c
\* quit, any other key does nothing.
UpdateKey ==
    /\ ~exited /\ ~disableTUI
    /\ \E k \in Keys :
          /\ m' = KeyUpdate(m, k).model
          /\ pending' = pending \cup KeyUpdate(m, k).cmd
          /\ waiting' = waiting + Listens(KeyMsg(k))
    /\ UNCHANGED <<config, pumpVars, received, rawVars, applied, outVars, fsVars,
                   exitVars>>

\* An Update that sets quitting on doneMsg and returns no command.
UpdateDone_NoQuit ==
    /\ ~exited /\ DoneMsg \in pending
    /\ m' = [m EXCEPT !.quitting = TRUE]
    /\ pending' = pending \ {DoneMsg}
    /\ UNCHANGED <<config, pumpVars, received, rawVars, waiting, applied, outVars, fsVars,
                   exitVars>>

\* Update on doneMsg.
UpdateDone ==
    /\ ~exited /\ DoneMsg \in pending
    /\ m' = [m EXCEPT !.quitting = TRUE]
    /\ pending' = (pending \ {DoneMsg}) \cup {QuitMsg}
    /\ waiting' = waiting + Listens(DoneMsg)
    /\ UNCHANGED <<config, pumpVars, received, rawVars, applied, outVars, fsVars,
                   exitVars>>

\* Update on eventMsg, handleEvent on a record carrying an error.
UpdateError ==
    /\ ~exited
    /\ \E msg \in pending :
          /\ msg.kind = "eventMsg" /\ msg.item.Err # ""
          /\ m' = [m EXCEPT !.err = msg.item.Err]
          /\ pending' = (pending \ {msg}) \cup {QuitMsg}
          /\ waiting' = waiting + Listens(msg)
    /\ UNCHANGED <<config, pumpVars, received, rawVars, applied, outVars, fsVars,
                   exitVars>>

\* Update on eventMsg, handleEvent on an event that saves nothing; it issues
\* the next waitForActivity.
UpdateEvent ==
    /\ ~exited
    /\ \E msg \in pending :
          /\ msg.kind = "eventMsg" /\ msg.item.Err = ""
          /\ ~(EventOf(msg.item.Event).type = "artifact" /\ HasDest)
          /\ m' = HandleEvent(m, EventOf(msg.item.Event), FALSE, [path |-> Empty, err |-> ""])
          /\ applied' = Append(applied, msg.item.Event)
          /\ pending' = pending \ {msg}
          /\ waiting' = waiting + Listens(msg)
    /\ UNCHANGED <<config, pumpVars, received, rawVars, outVars, fsVars, exitVars>>

\* Update on eventMsg, handleEvent on an artifact update with a destination.
UpdateArtifact ==
    /\ ~exited
    /\ \E msg \in pending :
          /\ msg.kind = "eventMsg" /\ msg.item.Err = ""
          /\ EventOf(msg.item.Event).type = "artifact" /\ HasDest
          /\ \E io \in IOChoices, t \in ClockReadings(EventOf(msg.item.Event)) :
                LET index == StreamIndex(Len(saves))
                    res == SaveArtifact(fs, outDir, outFile, EventOf(msg.item.Event), index, t, io)
                IN  /\ fs' = res.fs
                    /\ saves' = Append(saves, SaveRecord(EventOf(msg.item.Event), index, res))
                    /\ now' = t
                    /\ m' = HandleEvent(m, EventOf(msg.item.Event), TRUE, res)
          /\ applied' = Append(applied, msg.item.Event)
          /\ pending' = pending \ {msg}
          /\ waiting' = waiting + Listens(msg)
    /\ UNCHANGED <<config, pumpVars, received, rawVars, outVars, exitVars>>

\* A program that closes the stream channel when it quits.
ProgramQuit_ClosesStream ==
    /\ ~exited /\ QuitMsg \in pending
    /\ stdout' = IF m.taskID # "" THEN Append(stdout, HintLine(m.taskID)) ELSE stdout
    /\ exited' = TRUE
    /\ exitCode' = 0
    /\ closed' = TRUE
    /\ UNCHANGED <<config, src, pumpPc, pumpItem, received, rawVars, tuiVars, stderr,
                   fsVars>>

\* The program handles tea.QuitMsg: p.Run returns the final model without
\* error, runTUI prints the hint when a task id is known, the command returns.
ProgramQuit ==
    /\ ~exited /\ QuitMsg \in pending
    /\ stdout' = IF m.taskID # "" THEN Append(stdout, HintLine(m.taskID)) ELSE stdout
    /\ exited' = TRUE
    /\ exitCode' = 0
    /\ UNCHANGED <<config, pumpVars, received, rawVars, tuiVars, stderr, fsVars>>

Next ==
    \/ PumpYield \/ PumpEnd \/ PumpClose
    \/ RawRecv \/ RawError \/ RawEncodeFail \/ RawEvent \/ RawArtifact \/ RawEnd
    \/ WaitRecv \/ WaitClosed
    \/ UpdateKey \/ UpdateDone \/ UpdateError \/ UpdateEvent \/ UpdateArtifact
    \/ ProgramQuit

Spec == Init /\ [][Next]_vars

\* ---- the interactive session, with the program's event loop running
\* The session of runTUI alone: the pump and the Bubble Tea program, with
\* --file given or not and no --out-dir (the directory only prefixes the
\* paths saveArtifact writes to).
TUIInit == Init /\ ~disableTUI /\ outDir = Empty

TUINext ==
    \/ PumpYield \/ PumpEnd \/ PumpClose
    \/ WaitRecv \/ WaitClosed
    \/ UpdateKey \/ UpdateDone \/ UpdateError \/ UpdateEvent \/ UpdateArtifact
    \/ ProgramQuit

\* The event loop takes a tea.QuitMsg that was sent to it, whatever else is
\* in flight; nothing is assumed of the source, the pump or the user.
TUISpec == TUIInit /\ [][TUINext]_vars /\ WF_vars(ProgramQuit)

\* The same session when the program keeps running its commands and its
\* loop keeps taking the messages sent to it: a blocked receive returns once
\* the channel is closed, and every message sent is handled.  Nothing is
\* assumed of the source, the pump or the user.
TUILoopSpec ==
    /\ TUIInit /\ [][TUINext]_vars
    /\ WF_vars(WaitClosed) /\ WF_vars(UpdateDone)
    /\ WF_vars(UpdateEvent) /\ WF_vars(UpdateArtifact)
    /\ WF_vars(ProgramQuit)

\* ---- the raw session
\* runSend with --no-tui from the pump's start: the pump goroutine and runRaw.
\* The client's sequence is finite, and the scheduler runs a goroutine that
\* can take a step: the pump reaches the end of the sequence, a send meets
\* the receive, the loop body runs, and the range over the closed channel ends.
RawInit == Init /\ disableTUI

RawNext ==
    \/ PumpYield \/ PumpEnd \/ PumpClose
    \/ RawRecv \/ RawError \/ RawEncodeFail \/ RawEvent \/ RawArtifact \/ RawEnd

RawSpec ==
    /\ RawInit /\ [][RawNext]_vars
    /\ WF_vars(PumpEnd) /\ WF_vars(PumpClose)
    /\ WF_vars(RawRecv) /\ WF_vars(RawError) /\ WF_vars(RawEncodeFail)
    /\ WF_vars(RawEvent) /\ WF_vars(RawArtifact) /\ WF_vars(RawEnd)

\* ---- the model alone
\* The Bubble Tea model over a longer stream: only Update's eventMsg case is
\* followed, for events that append one line (a status update with text, a
\* message with one text part) or three (an artifact with two parts), with
\* no destination configured.
LogEvents == {"failed", "message", "unnamed"}

LogInit == TUIInit /\ outFile = Empty

\* Update on the eventMsg of the next event of the stream.
ApplyEvent ==
    /\ ~exited /\ Len(applied) < MaxApplied
    /\ \E e \in LogEvents :
          /\ m' = HandleEvent(m, EventOf(e), FALSE, [path |-> Empty, err |-> ""])
          /\ applied' = Append(applied, e)
    /\ UNCHANGED <<config, pumpVars, received, rawVars, waiting, pending, outVars, fsVars,
                   exitVars>>

LogNext == ApplyEvent

LogSpec == LogInit /\ [][LogNext]_vars

\* ---- saveArtifact alone
\* saveArtifact called once with any artifact of up to MaxParts parts, any
\* destination and any index up to MaxIndex, as send --wait, get and
\* download call it (main.go 267-271) and as the streaming consumers do.
PartValues == {Text(Str_hello), Data(DataObj), Data(DataNaN), URL(Str_dot)}
PartSeqs == UNION { [1..k -> PartValues] : k \in 0..MaxParts }
Artifacts == { Artifact(n, ps) : n \in {Empty, Str_report_txt}, ps \in PartSeqs }

SaveInit ==
    /\ transport = Empty
    /\ card = {TransportProtocolJSONRPC}
    /\ mainPc = "wait"
    /\ selectedTransport = TransportProtocolJSONRPC
    /\ client = TransportOpt(TransportProtocolJSONRPC)
    /\ calls = <<ResolveCall>>
    /\ art \in Artifacts
    /\ command = "send"
    /\ task = NoTask
    /\ invocation = NoInvocation
    /\ serviceURL = DefaultURL
    /\ authToken = ""
    /\ disableTUI = TRUE
    /\ outDir \in {Empty, Str_dir}
    /\ outFile \in {Empty, Str_out_json}
    /\ src = <<>>
    /\ pumpPc = "none"
    /\ pumpItem = NoItem
    /\ closed = FALSE
    /\ received = <<>>
    /\ rawPc = "off"
    /\ rawMsg = NoItem
    /\ waiting = 0
    /\ pending = {}
    /\ m = InitialModel
    /\ applied = <<>>
    /\ stdout = <<>>
    /\ stderr = <<>>
    /\ fs = [p \in {} |-> <<>>]
    /\ saves = <<>>
    /\ now = 0
    /\ exited = FALSE
    /\ exitCode = 0

CallSaveArtifact ==
    /\ saves = <<>>
    /\ \E index \in 0..MaxIndex, io \in IOChoices, t \in ClockReadings(art) :
          LET res == SaveArtifact(fs, outDir, outFile, art, index, t, io)
          IN  /\ fs' = res.fs
              /\ saves' = Append(saves, SaveRecord(art, index, res))
              /\ now' = t
    /\ UNCHANGED <<config, pumpVars, received, rawVars, tuiVars, outVars, exitVars>>

SaveNext == CallSaveArtifact

SaveSpec == SaveInit /\ [][SaveNext]_vars

\* ------------------------------------------------------------- the start
\* runSend up to the start of the pump (main.go 214-311); runWatch resolves
\* the card and creates the client the same way (main.go 316-326).
\* The values --transport is given, "" for a flag not given.
Overrides ==
    {Empty, Str_grpc, Str_GRPC, Str_jsonrpc, Str_json_rpc, Str_rest, Str_httpjson,
     Str_http_json, Str_quic}

\* The protocol bindings a card's interfaces may name; "WS" stands for any
\* binding createClient has no case for.
Bindings == {TransportProtocolGRPC, TransportProtocolJSONRPC, TransportProtocolHTTPJSON, "WS"}

\* The session's variables before the pump is started.
sessionVars == <<src, pumpItem, closed, received, rawMsg, pending, m, applied, fs, saves, now>>

StartInit ==
    /\ transport \in Overrides
    /\ card = {}
    /\ mainPc = "resolve"
    /\ selectedTransport = ""
    /\ client = NoClient
    /\ calls = <<>>
    /\ art = NoArtifact
    /\ command = "send"
    /\ task = NoTask
    /\ invocation = NoInvocation
    /\ serviceURL = DefaultURL
    /\ authToken = ""
    /\ disableTUI \in BOOLEAN
    /\ outDir \in {Empty, Str_dir}
    /\ outFile \in {Empty, Str_out_json}
    /\ src = <<>>
    /\ pumpPc = "none"
    /\ pumpItem = NoItem
    /\ closed = FALSE
    /\ received = <<>>
    /\ rawPc = "off"
    /\ rawMsg = NoItem
    /\ waiting = 0
    /\ pending = {}
    /\ m = InitialModel
    /\ applied = <<>>
    /\ stdout = <<>>
    /\ stderr = <<>>
    /\ fs = [p \in {} |-> <<>>]
    /\ saves = <<>>
    /\ now = 0
    /\ exited = FALSE
    /\ exitCode = 0

\* agentcard.DefaultResolver.Resolve fetches the card from the service.
ResolveTo(cards) ==
    /\ ~exited /\ mainPc = "resolve"
    /\ calls' = Append(calls, ResolveCall)
    /\ \E bindings \in cards : card' = bindings
    /\ mainPc' = IF command = "describe" THEN "describe" ELSE "createClient"
    /\ UNCHANGED <<settings, art, command, task, transport, selectedTransport, client, disableTUI, outDir, outFile,
                   sessionVars, pumpPc, rawPc, waiting, outVars, exitVars>>

Resolve == ResolveTo(SUBSET Bindings)

\* Resolve fails: fatalf.
ResolveFail ==
    /\ ~exited /\ mainPc = "resolve"
    /\ calls' = Append(calls, ResolveCall)
    /\ stderr' = stderr \o FatalLines("failed to resolve AgentCard", "connection refused")
    /\ exited' = TRUE
    /\ exitCode' = 1
    /\ UNCHANGED <<settings, art, command, task, transport, card, mainPc, selectedTransport, client, disableTUI, outDir,
                   outFile, sessionVars, pumpPc, rawPc, waiting, stdout>>

\* createClient returns the unsupported-transport error: fatalf.
CreateClientUnsupported ==
    /\ ~exited /\ mainPc = "createClient"
    /\ SelectTransport(transport, card).err # ""
    /\ stderr' = stderr \o FatalLines("failed to create client", SelectTransport(transport, card).err)
    /\ exited' = TRUE
    /\ exitCode' = 1
    /\ UNCHANGED <<settings, art, command, task, transport, card, mainPc, selectedTransport, client, calls, disableTUI,
                   outDir, outFile, sessionVars, pumpPc, rawPc, waiting, stdout>>

\* A createClient that prints the transport in either mode.
CreateClient_AlwaysPrints ==
    /\ ~exited /\ mainPc = "createClient"
    /\ SelectTransport(transport, card).err = ""
    /\ selectedTransport' = SelectTransport(transport, card).selected
    /\ stdout' = Append(stdout, TransportLine(transport, selectedTransport'))
    /\ client' = TransportOpt(selectedTransport')
    /\ mainPc' = "start"
    /\ UNCHANGED <<settings, art, command, task, transport, card, calls, disableTUI, outDir, outFile, sessionVars,
                   pumpPc, rawPc, waiting, stderr, exitVars>>

\* createClient determines the transport, prints it in interactive mode, and
\* a2aclient.NewFromCard builds the client.
CreateClient ==
    /\ ~exited /\ mainPc = "createClient"
    /\ SelectTransport(transport, card).err = ""
    /\ selectedTransport' = SelectTransport(transport, card).selected
    /\ stdout' = IF disableTUI THEN stdout
                 ELSE Append(stdout, TransportLine(transport, selectedTransport'))
    /\ client' = TransportOpt(selectedTransport')
    /\ mainPc' = "start"
    /\ UNCHANGED <<settings, art, command, task, transport, card, calls, disableTUI, outDir, outFile, sessionVars,
                   pumpPc, rawPc, waiting, stderr, exitVars>>

\* The same, but a2aclient.NewFromCard returns an error: fatalf.
CreateClientFail ==
    /\ ~exited /\ mainPc = "createClient"
    /\ SelectTransport(transport, card).err = ""
    /\ selectedTransport' = SelectTransport(transport, card).selected
    /\ stdout' = IF disableTUI THEN stdout
                 ELSE Append(stdout, TransportLine(transport, selectedTransport'))
    /\ stderr' = stderr \o FatalLines("failed to create client", "no compatible transport")
    /\ exited' = TRUE
    /\ exitCode' = 1
    /\ UNCHANGED <<settings, art, command, task, transport, card, mainPc, client, calls, disableTUI, outDir, outFile,
                   sessionVars, pumpPc, rawPc, waiting>>

\* --task and --ref: unset, or a task id.
TaskFlags == {Empty, <<"t", "0">>}

\* The lines runSend prints for --task and --ref in interactive mode
\* (main.go 226-237).
Prelude(target, ref) ==
    (IF target # Empty
     THEN <<[line |-> "Continuing Task", event |-> Nil, text |-> "t0"]>> ELSE <<>>)
    \o (IF ref # Empty
        THEN <<[line |-> "Referencing Task", event |-> Nil, text |-> "t0"]>> ELSE <<>>)

\* The message is built, the channel is made, the pump goroutine started and
\* the consumer entered (main.go 225-237, 292-311).
StartStream ==
    /\ ~exited /\ mainPc = "start" /\ command = "send"
    /\ \E target \in TaskFlags, ref \in TaskFlags :
          stdout' = IF disableTUI THEN stdout
                    ELSE stdout \o Prelude(target, ref)
                         \o <<[line |-> "Invoking A2A Service (Streaming)...",
                               event |-> Nil, text |-> ""]>>
    /\ pumpPc' = "range"
    /\ rawPc' = IF disableTUI THEN "recv" ELSE "off"
    /\ waiting' = IF disableTUI THEN 0 ELSE 1
    /\ mainPc' = "stream"
    /\ UNCHANGED <<settings, art, command, task, transport, card, selectedTransport, client, calls, disableTUI, outDir,
                   outFile, sessionVars, stderr, exitVars>>

StartNext ==
    \/ Resolve \/ ResolveFail
    \/ CreateClientUnsupported \/ CreateClient \/ CreateClientFail
    \/ StartStream

StartSpec == StartInit /\ [][StartNext]_vars

\* ---- initConfig
\* viper keys and environment variable names are sequences of words and
\* separators: "envs.default.token" is <<"envs", ".", "default", ".", "token">>.
ToUpperWord(w) ==
    CASE w = "envs"        -> "ENVS"
      [] w = "default"     -> "DEFAULT"
      [] w = "staging"     -> "STAGING"
      [] w = "service_url" -> "SERVICE_URL"
      [] w = "token"       -> "TOKEN"
      [] w = "default_env" -> "DEFAULT_ENV"
      [] OTHER             -> w

\* viper.SetEnvPrefix("A2ACLI") with AutomaticEnv and no key replacer: the
\* variable looked up for a key is the prefix, "_" and the key in upper case,
\* its dots kept.
EnvVar(key) == <<"A2ACLI", "_">> \o [i \in 1..Len(key) |-> ToUpperWord(key[i])]

\* The value the config file holds for a key, "" when it has none.
FileValue(file, key) ==
    IF key = <<"default_env">> THEN file.default_env
    ELSE IF Len(key) = 5 /\ key[1] = "envs" /\ key[3] \in DOMAIN file.envs
    THEN file.envs[key[3]][key[5]]
    ELSE ""

\* viper.GetString(key): the environment before the config file.
GetString(inv, key) ==
    IF EnvVar(key) \in DOMAIN inv.environ
    THEN inv.environ[EnvVar(key)]
    ELSE FileValue(inv.file, key)

\* Step 1 of initConfig: --env, else default_env, else "default".
TargetEnv(inv) ==
    IF inv.envName # "" THEN inv.envName
    ELSE IF GetString(inv, <<"default_env">>) # "" THEN GetString(inv, <<"default_env">>)
    ELSE "default"

\* Steps 2 and 3 of initConfig for one setting: the flag's value when the
\* flag was given (Changed), else the selected environment's value when it is
\* not empty, else the flag's default.
Effective(inv, flag, setting, default) ==
    LET envValue == GetString(inv, <<"envs", ".", TargetEnv(inv), ".", setting>>)
    IN  IF flag # NotGiven THEN flag
        ELSE IF envValue # "" THEN envValue
        ELSE default

\* The environment variables an invocation may find set, and their values.
Var_SERVICE_URL == <<"A2ACLI", "_", "SERVICE_URL">>
Var_TOKEN == <<"A2ACLI", "_", "TOKEN">>
Var_DEFAULT_ENV == <<"A2ACLI", "_", "DEFAULT_ENV">>
Var_ENVS_DEFAULT_SERVICE_URL == <<"A2ACLI", "_", "ENVS", ".", "DEFAULT", ".", "SERVICE_URL">>
EnvNames == {Var_SERVICE_URL, Var_TOKEN, Var_DEFAULT_ENV, Var_ENVS_DEFAULT_SERVICE_URL}
EnvValue(n) ==
    CASE n = Var_SERVICE_URL -> "http://env"
      [] n = Var_TOKEN       -> "env-token"
      [] n = Var_DEFAULT_ENV -> "staging"
      [] OTHER               -> "http://dotted"
Environs == { [n \in S |-> EnvValue(n)] : S \in SUBSET EnvNames }

\* The config files: none, or one with a default_env and the environments
\* default and staging, each with or without a service_url and a token.
FileEnvs ==
    [{"default", "staging"} ->
        [service_url : {"", "http://file"}, token : {"", "file-token"}]]
Files == {NoFile} \cup { [default_env |-> d, envs |-> e] : d \in {"", "staging"}, e \in FileEnvs }

Invocations ==
    { Invocation(u, t, e, environ, f) :
        u \in {NotGiven, "http://flag"}, t \in {NotGiven, "flag-token"},
        e \in {"", "staging"}, environ \in Environs, f \in Files }

ConfigInit ==
    /\ invocation \in Invocations
    /\ serviceURL = IF invocation.urlFlag # NotGiven THEN invocation.urlFlag ELSE DefaultURL
    /\ authToken = IF invocation.tokenFlag # NotGiven THEN invocation.tokenFlag ELSE ""
    /\ mainPc = "init"
    /\ transport = Empty
    /\ card = {}
    /\ selectedTransport = ""
    /\ client = NoClient
    /\ calls = <<>>
    /\ art = NoArtifact
    /\ command \in {"send", "config"}
    /\ task = NoTask
    /\ disableTUI = FALSE
    /\ outDir = Empty
    /\ outFile = Empty
    /\ src = <<>>
    /\ pumpPc = "none"
    /\ pumpItem = NoItem
    /\ closed = FALSE
    /\ received = <<>>
    /\ rawPc = "off"
    /\ rawMsg = NoItem
    /\ waiting = 0
    /\ pending = {}
    /\ m = InitialModel
    /\ applied = <<>>
    /\ stdout = <<>>
    /\ stderr = <<>>
    /\ fs = [p \in {} |-> <<>>]
    /\ saves = <<>>
    /\ now = 0
    /\ exited = FALSE
    /\ exitCode = 0

\* initConfig, run by cobra once the flags are parsed.
InitConfig ==
    /\ mainPc = "init"
    /\ serviceURL' = Effective(invocation, invocation.urlFlag, "service_url", serviceURL)
    /\ authToken' = Effective(invocation, invocation.tokenFlag, "token", authToken)
    /\ mainPc' = "resolve"
    /\ UNCHANGED <<invocation, transport, card, selectedTransport, client, calls, art,
                   command, task, disableTUI, outDir, outFile, pumpVars, received,
                   rawVars, tuiVars, outVars, fsVars, exitVars>>

\* A runConfig that prints the token.
TokenStr_Echo(token) == token

\* tokenStr of runConfig (conformance_test.go 314-317).
TokenStr(token) == IF token # "" THEN "<set>" ELSE "<none>"

\* The four lines runConfig prints.  viper.ConfigFileUsed() is the path of the
\* config file that was read, "" when there was none.
ConfigOutput(inv, url, token) ==
    <<[line |-> "Config File Used: %s",
       arg |-> IF inv.file = NoFile THEN "" ELSE "config.yaml"],
      [line |-> "Active Environment: %s", arg |-> TargetEnv(inv)],
      [line |-> "Service URL: %s", arg |-> url],
      [line |-> "Auth Token: %s", arg |-> TokenStr(token)]>>

\* runConfig, the config command, after initConfig.
RunConfig ==
    /\ mainPc = "resolve" /\ command = "config"
    /\ stdout' = stdout \o ConfigOutput(invocation, serviceURL, authToken)
    /\ mainPc' = "done"
    /\ exited' = TRUE
    /\ exitCode' = 0
    /\ UNCHANGED <<settings, transport, card, selectedTransport, client, calls, art,
                   command, task, disableTUI, outDir, outFile, pumpVars, received,
                   rawVars, tuiVars, stderr, fsVars>>

ConfigNext == InitConfig \/ RunConfig

ConfigSpec == ConfigInit /\ [][ConfigNext]_vars

\* ---- the commands (main.go 150-441, 643-710)
\* describe, send, send --wait, watch, get and cancel from their first line to
\* their return, or to the stream's start; the raw session follows a stream
\* opened with --no-tui.
Commands == {"describe", "send", "send --wait", "watch", "get", "download", "cancel"}

\* The cards the service may answer with.
CmdCards == {{TransportProtocolJSONRPC}}

\* a2a.TaskState of a task the service returns.
TaskStates == {"WORKING", "COMPLETED", "FAILED", "REJECTED", "CANCELED"}

ArtifactSeqs == UNION { [1..k -> {"report.txt", "unnamed"}] : k \in 0..MaxArtifacts }
Tasks == { Task("t1", st, as) : st \in TaskStates, as \in ArtifactSeqs }
\* The tasks watch may find still running: they have no artifact yet.
NewTasks == { Task("t1", st, <<>>) : st \in TaskStates }

\* A line of text on stdout that is not a JSON serialization.
Info(kind, text) == [line |-> kind, event |-> Nil, text |-> text]
\* fmt.Println(string(b)) of a json.MarshalIndent result.
JSONValueLine(what) == [line |-> "json", event |-> Nil, text |-> what]

\* json.MarshalIndent(task, "", "  ") succeeds.
TaskMarshalOk(t) == \A i \in 1..Len(t.artifacts) : MarshalOk(EventOf(t.artifacts[i]))

\* displayTaskResult's preview of a text part (main.go 690-693).
DisplayPreviewLimit == 500
Str_truncated == <<".", ".", ".", " ", "(", "t", "r", "u", "n", "c", "a", "t", "e", "d", ")">>
DisplayPreview(text) ==
    IF LongerThan(text, DisplayPreviewLimit)
    THEN TakeBytes(text, DisplayPreviewLimit) \o Str_truncated
    ELSE text
Truncated(parts) ==
    \E i \in 1..Len(parts) :
        parts[i].kind = "text" /\ LongerThan(parts[i].v, DisplayPreviewLimit)

\* The preview lines of an artifact's parts (main.go 684-696).
RECURSIVE DisplayPreviews(_)
DisplayPreviews(parts) ==
    IF parts = <<>> THEN <<>>
    ELSE LET p == Head(parts)
             line == IF p.kind = "data"
                     THEN <<[line |-> "Data (Preview):", event |-> Nil, text |-> "",
                             preview |-> MarshalIndent(p.v).bytes]>>
                     ELSE IF p.kind = "text"
                     THEN <<[line |-> "Content (Preview):", event |-> Nil, text |-> "",
                             preview |-> DisplayPreview(p.v)]>>
                     ELSE <<>>
         IN  line \o DisplayPreviews(Tail(parts))

\* What the file system and the clock do to the saves of a task's artifacts,
\* one choice per artifact: at most MaxIOFail operations fail, and the clock,
\* read only to name an unnamed artifact, never runs backwards.
SaveChoices(arts) ==
    LET n == Len(arts)
        prev(ts, i) == IF i = 1 THEN now ELSE ts[i - 1]
    IN  { c \in [ios : [1..n -> IOOutcomes], ts : [1..n -> 0..MaxNow]] :
            /\ Cardinality({ i \in 1..n : c.ios[i] # "ok" }) <= MaxIOFail
            /\ \A i \in 1..n :
                  /\ ~HasDest => c.ios[i] = "ok"
                  /\ IF HasDest /\ ReadsClock(outFile, EventOf(arts[i]).name)
                     THEN c.ts[i] \in prev(c.ts, i)..MaxNow
                     ELSE c.ts[i] = prev(c.ts, i) }

\* One turn of the loop over task.Artifacts (main.go 677-708): with show, the
\* artifact's name and previews are printed; with a destination the save's
\* result res is kept and, with show, printed.
AfterArtifact(st, ev, res, index, unix, show) ==
    [fs    |-> IF HasDest THEN res.fs ELSE st.fs,
     saves |-> IF HasDest THEN Append(st.saves, SaveRecord(ev, index, res)) ELSE st.saves,
     now   |-> unix,
     out   |-> IF ~show THEN st.out
               ELSE st.out \o <<Info("Name", "")>> \o DisplayPreviews(ev.parts)
                    \o (IF HasDest
                        THEN IF res.err # ""
                             THEN <<Info("Error saving artifact:", res.err)>>
                             ELSE <<[line |-> ">> Saved to:", event |-> Nil, text |-> "",
                                     preview |-> res.path]>>
                        ELSE IF Truncated(ev.parts)
                             THEN <<Info("(Hint: Use --out-dir <path> or --file <name>)", "")>>
                             ELSE <<>>)]

\* The loop over task.Artifacts from the i-th on (main.go 267-269, 399-401,
\* 650-652 and, with show, 677-708): each artifact is saved with its position
\* as the index when a destination is configured.
RECURSIVE EachArtifact(_, _, _, _, _)
EachArtifact(st, arts, i, c, show) ==
    IF i > Len(arts) THEN st
    ELSE EachArtifact(
             AfterArtifact(st, EventOf(arts[i]),
                           SaveArtifact(st.fs, outDir, outFile, EventOf(arts[i]), i - 1,
                                        c.ts[i], c.ios[i]),
                           i - 1, c.ts[i], show),
             arts, i + 1, c, show)

\* What a command prints of a task before its artifacts: with --no-tui the
\* task's JSON when it can be produced (main.go 645-648), otherwise the status
\* and the artifacts' header (main.go 668-675).
HeadLines(t) ==
    IF disableTUI
    THEN IF TaskMarshalOk(t) THEN <<JSONValueLine("task")>> ELSE <<>>
    ELSE IF t.artifacts = <<>>
    THEN <<Info("Task Status", t.state), Info("No artifacts produced.", "")>>
    ELSE <<Info("Task Status", t.state), Info("ARTIFACT(S) AVAILABLE", "")>>

\* The closing rule of the report (main.go 709).
FootLines(t) ==
    IF disableTUI \/ t.artifacts = <<>> THEN <<>>
    ELSE <<Info("------------------------------", "")>>

WithFoot(st, lines) == [st EXCEPT !.out = st.out \o lines]

\* What a command does with the task it fetched: with --no-tui the task's
\* JSON, then the saves (main.go 262-271, 394-404, 644-655); otherwise
\* displayTaskResult's report (main.go 657-709).
TaskOutput(t, c) ==
    WithFoot(EachArtifact([fs |-> fs, saves |-> saves, now |-> now, out |-> HeadLines(t)],
                          t.artifacts, 1, c, ~disableTUI),
             FootLines(t))

\* The command's output and saves take effect.
Deliver(st, before, after) ==
    /\ stdout' = stdout \o before \o st.out \o after
    /\ fs' = st.fs
    /\ saves' = st.saves
    /\ now' = st.now

\* The lines a command prints just before its blocking call, in interactive
\* mode.
PreCall(target, ref) ==
    IF disableTUI THEN <<>>
    ELSE CASE command = "send --wait" ->
                Prelude(target, ref) \o <<Info("Invoking A2A Service (Blocking)...", "")>>
           [] command = "watch" -> <<Info("Watching Task", "t1")>>
           [] OTHER -> <<>>

\* The blocking call of a command and fatalf's words for its failure.
BlockingCall ==
    CASE command = "send --wait" -> "SendMessage"
      [] command = "cancel"      -> "CancelTask"
      [] OTHER                   -> "GetTask"
CallFailure ==
    CASE command = "send --wait" -> "SendMessage failed"
      [] command = "watch"       -> "failed to retrieve task status"
      [] command = "cancel"      -> "failed to cancel task"
      [] OTHER                   -> "failed to retrieve task"
SubscribeCall == "SubscribeToTask"

CmdInit ==
    /\ transport \in {Empty, Str_grpc, Str_quic}
    /\ card = {}
    /\ mainPc = "resolve"
    /\ selectedTransport = ""
    /\ client = NoClient
    /\ calls = <<>>
    /\ art = NoArtifact
    /\ command \in Commands
    /\ task = NoTask
    /\ invocation = NoInvocation
    /\ serviceURL = DefaultURL
    /\ authToken = ""
    /\ disableTUI \in BOOLEAN
    /\ outDir \in {Empty, Str_dir}
    /\ outFile \in {Empty, Str_out_json}
    /\ src = <<>>
    /\ pumpPc = "none"
    /\ pumpItem = NoItem
    /\ closed = FALSE
    /\ received = <<>>
    /\ rawPc = "off"
    /\ rawMsg = NoItem
    /\ waiting = 0
    /\ pending = {}
    /\ m = InitialModel
    /\ applied = <<>>
    /\ stdout = <<>>
    /\ stderr = <<>>
    /\ fs = [p \in {} |-> <<>>]
    /\ saves = <<>>
    /\ now = 0
    /\ exited = FALSE
    /\ exitCode = 0

CmdResolve == ResolveTo(CmdCards)

\* What a command that returns leaves of the session untouched.
idle == <<src, pumpPc, pumpItem, closed, received, rawVars, tuiVars>>
flags == <<settings, art, command, transport, disableTUI, outDir, outFile>>

\* runDescribe after the card is resolved (main.go 156-201), for a card
\* without description and skills.
Describe ==
    /\ ~exited /\ mainPc = "describe"
    /\ stdout' = IF disableTUI THEN Append(stdout, JSONValueLine("card"))
                 ELSE stdout
                      \o <<Info("Agent", "")>>
                      \o (IF card # {} THEN <<Info("Supported Bindings", "")>> ELSE <<>>)
                      \o <<Info("Capabilities", ""), Info("Skills:", "")>>
    /\ mainPc' = "done"
    /\ exited' = TRUE
    /\ exitCode' = 0
    /\ UNCHANGED <<flags, task, card, selectedTransport, client, calls, idle, stderr, fsVars>>

\* download was given neither --out-dir nor --file (main.go 383-384).
NeedsDefault == command = "download" /\ outDir = Empty /\ outFile = Empty

\* runGet's default for download: the current directory (main.go 382-387).
DownloadDefault ==
    /\ ~exited /\ mainPc = "start" /\ NeedsDefault
    /\ outDir' = Str_dot
    /\ UNCHANGED <<settings, art, command, transport, disableTUI, outFile, task, card, mainPc,
                   selectedTransport, client, calls, idle, outVars, fsVars, exitVars>>

\* The blocking call of send --wait, watch, get or cancel fails: fatalf.
CallFail ==
    /\ ~exited /\ mainPc = "start" /\ command # "send" /\ ~NeedsDefault
    /\ \E target \in TaskFlags, ref \in TaskFlags :
          stdout' = stdout \o PreCall(target, ref)
    /\ calls' = Append(calls, BlockingCall)
    /\ stderr' = stderr \o FatalLines(CallFailure, "unavailable")
    /\ exited' = TRUE
    /\ exitCode' = 1
    /\ UNCHANGED <<flags, task, card, mainPc, selectedTransport, client, idle, fsVars>>

\* send --wait whose result is a task (main.go 245-277).
SendWaitTask ==
    /\ ~exited /\ mainPc = "start" /\ command = "send --wait"
    /\ calls' = Append(calls, BlockingCall)
    /\ \E target \in TaskFlags, ref \in TaskFlags, t \in Tasks :
       \E c \in SaveChoices(t.artifacts) :
          /\ task' = t
          /\ Deliver(TaskOutput(t, c), PreCall(target, ref),
                     IF disableTUI THEN <<>> ELSE <<HintLine(t.id)>>)
    /\ mainPc' = "done"
    /\ exited' = TRUE
    /\ exitCode' = 0
    /\ UNCHANGED <<flags, card, selectedTransport, client, idle, stderr>>

\* One "Agent: ..." line for each text part of a message (main.go 280-284).
IsTextPart(p) == p.kind = "text"
AgentTexts(parts) ==
    LET texts == SelectSeq(parts, IsTextPart)
    IN  [i \in 1..Len(texts) |->
            [line |-> "Agent:", event |-> Nil, text |-> "", preview |-> texts[i].v]]

\* send --wait whose result is a message (main.go 262-266, 278-284).
SendWaitMessage ==
    /\ ~exited /\ mainPc = "start" /\ command = "send --wait"
    /\ calls' = Append(calls, BlockingCall)
    /\ \E target \in TaskFlags, ref \in TaskFlags :
          stdout' = stdout \o PreCall(target, ref)
                      \o (IF disableTUI
                          THEN IF MarshalOk(EventOf("message"))
                               THEN <<JSONValueLine("message")>> ELSE <<>>
                          ELSE <<Info("Received simple message from agent", "t2")>>
                               \o AgentTexts(EventOf("message").parts))
    /\ mainPc' = "done"
    /\ exited' = TRUE
    /\ exitCode' = 0
    /\ UNCHANGED <<flags, task, card, selectedTransport, client, idle, stderr, fsVars>>

\* runGet after the client is built (main.go 378-408).
Get ==
    /\ ~exited /\ mainPc = "start" /\ command \in {"get", "download"} /\ ~NeedsDefault
    /\ calls' = Append(calls, BlockingCall)
    /\ \E t \in Tasks :
       \E c \in SaveChoices(t.artifacts) :
          /\ task' = t
          /\ Deliver(TaskOutput(t, c), <<>>, <<>>)
    /\ mainPc' = "done"
    /\ exited' = TRUE
    /\ exitCode' = 0
    /\ UNCHANGED <<flags, card, selectedTransport, client, idle, stderr>>

\* runCancel after the client is built (main.go 425-440).
Cancel ==
    /\ ~exited /\ mainPc = "start" /\ command = "cancel"
    /\ calls' = Append(calls, BlockingCall)
    /\ \E t \in Tasks :
          /\ task' = t
          /\ stdout' = IF disableTUI
                       THEN IF TaskMarshalOk(t)
                            THEN Append(stdout, JSONValueLine("task")) ELSE stdout
                       ELSE Append(stdout, Info("has been requested to cancel", t.state))
    /\ mainPc' = "done"
    /\ exited' = TRUE
    /\ exitCode' = 0
    /\ UNCHANGED <<flags, card, selectedTransport, client, idle, stderr, fsVars>>

\* A test that lets a rejected task through.
WatchTerminal_NoRejected(t) == t.state = "COMPLETED" \/ t.state = "FAILED"

\* runWatch's test of the fetched task's state (main.go 339).
WatchTerminal(t) == t.state = "COMPLETED" \/ t.state = "FAILED" \/ t.state = "REJECTED"

\* runWatch on a task that has ended: the result is displayed and the
\* command returns (main.go 328-342).
WatchEnded ==
    /\ ~exited /\ mainPc = "start" /\ command = "watch"
    /\ calls' = Append(calls, BlockingCall)
    /\ \E t \in Tasks :
       \E c \in SaveChoices(t.artifacts) :
          /\ WatchTerminal(t)
          /\ task' = t
          /\ Deliver(TaskOutput(t, c), PreCall(Empty, Empty), <<>>)
    /\ mainPc' = "done"
    /\ exited' = TRUE
    /\ exitCode' = 0
    /\ UNCHANGED <<flags, card, selectedTransport, client, idle, stderr>>

\* runWatch on any other task: the channel is made, the pump goroutine is
\* started on client.SubscribeToTask and the consumer is entered
\* (main.go 328-364).
WatchActive ==
    /\ ~exited /\ mainPc = "start" /\ command = "watch"
    /\ calls' = calls \o <<BlockingCall, SubscribeCall>>
    /\ \E t \in NewTasks :
          /\ ~WatchTerminal(t)
          /\ task' = t
    /\ stdout' = stdout \o PreCall(Empty, Empty)
                    \o (IF disableTUI THEN <<>>
                        ELSE <<Info("Task is active. Connecting to stream...", "")>>)
    /\ pumpPc' = "range"
    /\ rawPc' = IF disableTUI THEN "recv" ELSE "off"
    /\ waiting' = IF disableTUI THEN 0 ELSE 1
    /\ mainPc' = "stream"
    /\ UNCHANGED <<flags, card, selectedTransport, client, sessionVars, stderr, exitVars>>

CmdNext ==
    \/ CmdResolve \/ ResolveFail
    \/ CreateClientUnsupported \/ CreateClient \/ CreateClientFail
    \/ Describe \/ DownloadDefault \/ CallFail \/ SendWaitTask \/ SendWaitMessage \/ Get \/ Cancel
    \/ WatchEnded \/ WatchActive \/ StartStream
    \/ PumpYield \/ PumpEnd \/ PumpClose
    \/ RawRecv \/ RawError \/ RawEncodeFail \/ RawEvent \/ RawArtifact \/ RawEnd

CmdSpec == CmdInit /\ [][CmdNext]_vars

\* ------------------------------------------------------------- properties
Last(s) == s[Len(s)]
Front(s) == SubSeq(s, 1, Len(s) - 1)
IsPrefix(s, t) == Len(s) <= Len(t) /\ s = SubSeq(t, 1, Len(s))
IsErr(item) == item.Err # ""
ErrorReceived == Len(received) > 0 /\ IsErr(Last(received))

\* C1: the records taken from the channel are the pairs the source yielded, in
\* the source's order, none dropped, repeated or reordered: what was received
\* is a prefix of what the pump pulled, the only pulled pair not yet received
\* is the one the pump is sending, and the consumer holds the newest record.
C1_OrderPreserved ==
    /\ IsPrefix(received, src)
    /\ Len(src) - Len(received) <= 1
    /\ pumpPc # "send" => received = src
    /\ pumpPc = "send" => Len(src) = Len(received) + 1 /\ pumpItem = Last(src)
    /\ rawPc = "body" => Len(received) > 0 /\ rawMsg = Last(received)
    /\ \A p \in pending :
          p.kind = "eventMsg" => Len(received) > 0 /\ p.item = Last(received)

\* C1 witness: two events and then an error were received, all three in order.
C1_Witness ==
    /\ Len(received) = 3 /\ received = src
    /\ ~IsErr(received[1]) /\ ~IsErr(received[2]) /\ IsErr(received[3])
    /\ received[1] # received[2]

\* C2: one termination per session: no record follows a record carrying an
\* error, neither out of the source nor out of the channel; after the error
\* record the pump only closes; the channel is closed only when every pulled
\* pair has been handed over, and then stays the pump's last act.
C2_SingleTermination ==
    /\ \A i \in 1..(Len(received) - 1) : ~IsErr(received[i])
    /\ \A i \in 1..(Len(src) - 1) : ~IsErr(src[i])
    /\ ErrorReceived => pumpPc \in {"return", "done"}
    /\ closed <=> pumpPc = "done"
    /\ closed => received = src

\* C2 witness: an error record was delivered after an event and the channel
\* was then closed.
C2_Witness ==
    /\ closed /\ Len(received) >= 2 /\ ErrorReceived

\* Some line on stderr reports a stream error.
StreamErrorLines == { i \in 1..Len(stderr) : stderr[i] = ErrorLine(ErrReset) }

\* C3 (as claimed): in both modes a delivered error record, once rendered (the
\* raw error line, the model's err), ends the command with a non-zero status.
C3_ErrorExitsNonZero ==
    (exited /\ (m.err # "" \/ StreamErrorLines # {})) => exitCode # 0

\* The records runRaw's loop body has finished with.
RawHandled == IF rawPc = "body" /\ ~exited THEN Front(received) ELSE received

RECURSIVE JSONLines(_)
JSONLines(items) ==
    IF items = <<>> THEN <<>> ELSE <<JSONLine(Head(items).Event)>> \o JSONLines(Tail(items))

Encodable(item) == ~IsErr(item) /\ MarshalOk(EventOf(item.Event))
Delivered(item) == ~IsErr(item)

\* C4: in raw mode a received error record is handled next and by nothing
\* else: until then no error line is out, afterwards exactly one error line is
\* on stderr, it is the last line there, the exit status is 1, and stdout is
\* what it was when the record arrived (the lines of the events before it).
C4_RawErrorOnce ==
    (disableTUI /\ ErrorReceived) =>
        /\ stdout = JSONLines(SelectSeq(Front(received), Encodable))
        /\ IF exited
           THEN /\ exitCode = 1
                /\ Cardinality(StreamErrorLines) = 1
                /\ Last(stderr) = ErrorLine(ErrReset)
           ELSE /\ rawPc = "body" /\ rawMsg = Last(received)
                /\ StreamErrorLines = {}

\* C4 witness: raw mode exited on an error record that followed two events,
\* one of which had been written to stdout.
C4_Witness ==
    /\ disableTUI /\ exited /\ exitCode = 1 /\ ErrorReceived
    /\ Len(received) = 3 /\ Len(stdout) >= 1

\* C5 (as claimed): in raw mode every event delivered without error has one
\* line on stdout, in the order received.
C5_EveryEventOneLine ==
    disableTUI => stdout = JSONLines(SelectSeq(RawHandled, Delivered))

\* C5 (amended): in raw mode every event delivered without error that
\* json.Marshal encodes has one line on stdout, in the order received; an event
\* it refuses has none, and one "failed to encode" line on stderr instead.
C5_EncodedEventOneLine ==
    disableTUI =>
        /\ stdout = JSONLines(SelectSeq(RawHandled, Encodable))
        /\ Len(stderr) = Len(RawHandled) - Len(stdout)

\* C5 witness: three events were handled, two lines are on stdout in the
\* order received and the unencodable one between them left an error line.
C5_Witness ==
    /\ disableTUI /\ rawPc = "recv" /\ Len(received) = 3
    /\ Encodable(received[1]) /\ ~Encodable(received[2]) /\ Encodable(received[3])
    /\ received[1] # received[3]
    /\ stdout = <<JSONLine(received[1].Event), JSONLine(received[3].Event)>>
    /\ Len(stderr) = 1

\* The positions of `applied` holding a StatusUpdate with a terminal phase.
TerminalApplied ==
    { i \in 1..Len(applied) :
        EventOf(applied[i]).type = "status" /\ EventOf(applied[i]).state \in TerminalStates }

Min(S) == CHOOSE x \in S : \A y \in S : x <= y

\* C6 (as claimed): once a terminal StatusUpdate has been applied, the model's
\* status stays that terminal phase whatever non-terminal StatusUpdate, Message
\* or ArtifactUpdate is applied afterward.
C6_TerminalPhaseSticks ==
    Cardinality(TerminalApplied) = 1 => m.status = EventOf(applied[Min(TerminalApplied)]).state

\* C7 (as claimed): a step that applies a terminal StatusUpdate equal to the
\* event applied just before it changes neither the status nor the log.
C7_RepeatedTerminalIsNoOp ==
    [][(/\ Len(applied) > 0
        /\ Len(applied') = Len(applied) + 1
        /\ Last(applied') = Last(applied)
        /\ EventOf(Last(applied)).type = "status"
        /\ EventOf(Last(applied)).state \in TerminalStates)
       => (m'.status = m.status /\ m'.messages = m.messages)]_vars

\* The positions of `applied` whose event carries a task id.
WithTaskID == { i \in 1..Len(applied) : EventOf(applied[i]).taskID # "" }

\* C8 (as claimed): the model's task id is the one of the first applied event
\* that carried one, whatever later events carry.
C8_TaskIDWriteOnce ==
    WithTaskID # {} => m.taskID = EventOf(applied[Min(WithTaskID)]).taskID

\* C9 (as claimed): two saves of one session under the same base name went to
\* different paths.
C9_DistinctPaths ==
    \A i, j \in 1..Len(saves) :
        (i < j /\ saves[i].err = "" /\ saves[j].err = "" /\ saves[i].base = saves[j].base)
            => saves[i].path # saves[j].path

\* C10 (as claimed): with --file, the first artifact update of a streaming
\* session is saved under the file name and the k-th later one under the name
\* with _<k> before the extension.
C10_SuffixedOverride ==
    outFile # Empty =>
        \A n \in 1..Len(saves) :
            saves[n].err = "" => saves[n].path = SavePath(outDir, outFile, Empty, n - 1, 0)

\* The ArtifactUpdate events the consumer has finished with, in order: the
\* ones runRaw's loop body has handled, the ones handleEvent has applied.
IsArtifactItem(item) == ~IsErr(item) /\ EventOf(item.Event).type = "artifact"
IsArtifactRef(ref) == EventOf(ref).type = "artifact"

RECURSIVE EventRefs(_)
EventRefs(items) ==
    IF items = <<>> THEN <<>> ELSE <<Head(items).Event>> \o EventRefs(Tail(items))

ArtifactsHandled ==
    IF disableTUI
    THEN EventRefs(SelectSeq(RawHandled, IsArtifactItem))
    ELSE SelectSeq(applied, IsArtifactRef)

\* C11 (as claimed): with a destination configured saveArtifact has been
\* called once for each ArtifactUpdate the consumer has handled, in order;
\* with no destination, or no ArtifactUpdate, it was never called and no file
\* exists.
C11_SavedOncePerArtifact ==
    IF HasDest
    THEN /\ Len(saves) = Len(ArtifactsHandled)
         /\ \A i \in 1..Len(saves) : saves[i].base = BaseName(EventOf(ArtifactsHandled[i]))
    ELSE saves = <<>> /\ DOMAIN fs = {}

\* The saves of the session that failed, and the log lines reporting one.
FailedSaves == { i \in 1..Len(saves) : saves[i].err # "" }
ErrorSavingLines == { i \in 1..Len(m.messages) : m.messages[i].kind = "Error saving: %v" }

\* The events of the records received without error, in order.
EventsReceived == EventRefs(SelectSeq(received, Delivered))

\* C12: a failed save does not end the session.  Once a save has failed: the
\* exit status is non-zero only when a stream error was received; in raw mode
\* the loop is still running until the process ends and every encodable event
\* handled, before or after the failure, has its line on stdout; in
\* interactive mode every event received has been applied except one still in
\* flight to Update, the program still has a receive outstanding or a message
\* to handle until it quits, and the log holds one "Error saving" line per
\* failed save.
C12_FailedWriteNonFatal ==
    FailedSaves # {} =>
        /\ exitCode # 0 => ErrorReceived
        /\ disableTUI =>
              /\ ~exited => rawPc \in {"recv", "body"}
              /\ stdout = JSONLines(SelectSeq(RawHandled, Encodable))
        /\ ~disableTUI =>
              /\ IsPrefix(applied, EventsReceived)
              /\ applied # EventsReceived =>
                    /\ Len(EventsReceived) = Len(applied) + 1
                    /\ EventMsg(Last(received)) \in pending
              /\ ~exited => (waiting > 0 \/ pending # {})
              /\ Cardinality(ErrorSavingLines) = Cardinality(FailedSaves)

\* C12 witness: in interactive mode the save of the first artifact failed, its
\* error line is in the log, the FAILED status update that followed was
\* applied and shown, and the program then ended with status 0.
C12_Witness ==
    /\ ~disableTUI /\ exited /\ exitCode = 0
    /\ Len(saves) = 1 /\ saves[1].err # ""
    /\ Len(applied) = 2 /\ IsArtifactRef(applied[1]) /\ applied[2] = "failed"
    /\ m.status = "FAILED"
    /\ ErrorSavingLines # {} /\ Last(m.messages).kind = "[%s] %s"

\* C13: an ArtifactUpdate is processed whatever the status is.  Every step in
\* which handleEvent applies one keeps the log and appends the artifact's
\* header line right after it, and with a destination configured calls
\* saveArtifact once; when that call succeeds the file at the returned path
\* holds the artifact's content.
C13_ArtifactAlwaysProcessed ==
    [][(Len(applied') = Len(applied) + 1 /\ IsArtifactRef(Last(applied')))
       => LET v == EventOf(Last(applied'))
              n == Len(m.messages)
          IN  /\ Len(m'.messages) > n
              /\ SubSeq(m'.messages, 1, n) = m.messages
              /\ m'.messages[n + 1] = LogLine("ARTIFACT: %s", "", v.name, "")
              /\ HasDest =>
                    /\ Len(saves') = Len(saves) + 1
                    /\ Last(saves').err = "" =>
                          /\ Last(saves').path \in DOMAIN fs'
                          /\ fs'[Last(saves').path] = ContentBytes(v.parts, <<>>)]_vars

\* C13 witness: a FAILED status update was applied, then an ArtifactUpdate:
\* its header line follows the status line in the log and its file is on disk.
C13_Witness ==
    /\ ~disableTUI /\ HasDest /\ outFile = Empty
    /\ applied = <<"failed", "report.txt">>
    /\ Len(m.messages) >= 2
    /\ m.messages[1] = LogLine("[%s] %s", "FAILED", Str_ok, "")
    /\ m.messages[2] = LogLine("ARTIFACT: %s", "", Str_report_txt, "")
    /\ Len(saves) = 1 /\ saves[1].err = ""
    /\ saves[1].path \in DOMAIN fs /\ fs[saves[1].path] = Str_hello

\* C14 (as claimed): a step in which handleEvent applies a Message leaves the
\* model's status, the phase the view shows, as it was.
C14_MessageKeepsPhase ==
    [][(Len(applied') = Len(applied) + 1 /\ EventOf(Last(applied')).type = "message")
       => m'.status = m.status]_vars

\* ---- properties of the start
\* createClient has returned, to the start of the stream or to fatalf.
CreateClientReturned == mainPc \in {"start", "stream"} \/ (exited /\ mainPc = "createClient")

\* stderr reports an unsupported transport.
UnsupportedReported ==
    \E i \in 1..Len(stderr) : stderr[i].line = "Hint" /\ stderr[i].text = ErrUnsupported

\* C15 (as claimed): a forced transport of grpc, json-rpc or http+json is
\* accepted and selects gRPC, JSON-RPC or HTTP+JSON, whatever the card holds.
C15_SpecNamesAccepted ==
    (transport \in {Str_grpc, Str_json_rpc, Str_http_json} /\ CreateClientReturned) =>
        /\ ~UnsupportedReported
        /\ selectedTransport =
              (CASE transport = Str_grpc -> TransportProtocolGRPC
                 [] transport = Str_json_rpc -> TransportProtocolJSONRPC
                 [] transport = Str_http_json -> TransportProtocolHTTPJSON)

\* The forced values the command documents, in lower case, and the transport
\* each stands for.
DocumentedOverrides == {Str_grpc, Str_jsonrpc, Str_rest, Str_httpjson}
DocumentedTransport(l) ==
    CASE l = Str_grpc -> TransportProtocolGRPC
      [] l = Str_jsonrpc -> TransportProtocolJSONRPC
      [] l \in {Str_rest, Str_httpjson} -> TransportProtocolHTTPJSON

\* C15 (amended): a forced transport that is, without regard to case, one of
\* grpc, jsonrpc, rest, httpjson is accepted and selects gRPC, JSON-RPC,
\* HTTP+JSON, HTTP+JSON, whatever the card holds: no unsupported-transport
\* error is reported and a client that is built is built for that transport.
C15_DocumentedNamesAccepted ==
    (ToLower(transport) \in DocumentedOverrides /\ CreateClientReturned) =>
        /\ ~UnsupportedReported
        /\ selectedTransport = DocumentedTransport(ToLower(transport))
        /\ client # NoClient => client = TransportOpt(DocumentedTransport(ToLower(transport)))
        /\ mainPc \in {"start", "stream"} => client # NoClient

\* C15 witness: GRPC was forced, in upper case, on a card that advertises
\* JSON-RPC only, and the stream was started with a gRPC client.
C15_Witness ==
    /\ transport = Str_GRPC /\ card = {TransportProtocolJSONRPC}
    /\ mainPc = "stream" /\ client = "WithGRPCTransport"
    /\ selectedTransport = TransportProtocolGRPC

\* A forced transport createClient's switch has no case for.
Unrecognized == transport # Empty /\ ToLower(transport) \notin DocumentedOverrides

\* C16: with an unrecognized forced transport no client is ever built, the
\* pump goroutine and the consumer are never started, nothing is received,
\* applied or printed, and once createClient has returned the process has
\* ended with a non-zero status and the unsupported-transport error.
C16_UnrecognizedOverrideFails ==
    Unrecognized =>
        /\ client = NoClient /\ selectedTransport = ""
        /\ mainPc \notin {"start", "stream"}
        /\ pumpPc = "none" /\ rawPc = "off" /\ waiting = 0
        /\ src = <<>> /\ received = <<>> /\ applied = <<>> /\ m = InitialModel
        /\ stdout = <<>>
        /\ exited => exitCode # 0
        /\ CreateClientReturned => exited /\ UnsupportedReported

\* C16 witness: quic was forced on a card that advertises every binding and
\* the command ended with status 1 after the unsupported-transport error.
C16_Witness ==
    /\ transport = Str_quic /\ card = Bindings
    /\ exited /\ exitCode = 1 /\ UnsupportedReported
    /\ client = NoClient /\ pumpPc = "none"

\* C17 (as claimed): with an unrecognized forced transport no request is
\* ever sent to the service, the one resolving the card included.
C17_RejectedBeforeNetwork ==
    Unrecognized => calls = <<>>

\* The transports in descending priority.
Priority == <<TransportProtocolGRPC, TransportProtocolJSONRPC, TransportProtocolHTTPJSON>>

\* C18: with no forced transport the one selected is the first of gRPC,
\* JSON-RPC, HTTP+JSON among the card's bindings, JSON-RPC when the card has
\* none of them; no error is reported for the selection and a client that is
\* built is built for that one transport.
C18_PrioritySelection ==
    (transport = Empty /\ CreateClientReturned) =>
        LET present == { i \in 1..Len(Priority) : Priority[i] \in card }
            expected == IF present = {} THEN TransportProtocolJSONRPC
                        ELSE Priority[Min(present)]
        IN  /\ selectedTransport = expected
            /\ ~UnsupportedReported
            /\ client # NoClient => client = TransportOpt(expected)
            /\ mainPc \in {"start", "stream"} => client # NoClient

\* C18 witness: no transport was forced, the card advertises HTTP+JSON and an
\* unknown binding, and the stream was started with an HTTP+JSON client.
C18_Witness ==
    /\ transport = Empty /\ card = {TransportProtocolHTTPJSON, "WS"}
    /\ mainPc = "stream" /\ selectedTransport = TransportProtocolHTTPJSON
    /\ client = "WithRESTTransport"

\* C19: in interactive mode, once Update has handled a quit key (or the end
\* of the stream) the program ends, with status 0, whatever the source and
\* the pump do: no step of the pump is needed for it.
C19_QuitTerminates == m.quitting ~> (exited /\ exitCode = 0)

\* C19 witness: the program ended with status 0 after a quit key while the
\* pump was blocked on a send nobody received and the channel was open.
C19_Witness ==
    /\ ~disableTUI /\ m.quitting /\ exited /\ exitCode = 0
    /\ pumpPc = "send" /\ ~closed /\ waiting = 0
    /\ Len(src) = Len(received) + 1

\* C20 (as claimed): once quitting is set no event is applied: the log, the
\* status and the task id stay as they are and no artifact is saved.
C20_NoEventAfterQuit ==
    [][m.quitting =>
         /\ applied' = applied
         /\ m'.messages = m.messages /\ m'.status = m.status /\ m'.taskID = m.taskID
         /\ fs' = fs /\ saves' = saves]_vars

\* The task-id hints on stdout, in order.
IsHint(l) == l.line = "hint"
Hints == SelectSeq(stdout, IsHint)

\* The stream has completed: the channel is closed and no record carried an
\* error.
StreamCompleted == closed /\ ~ErrorReceived

\* C21 (as claimed): an interactive session whose stream completed ends with
\* exactly one hint line on stdout.
C21_HintAlways ==
    (~disableTUI /\ exited /\ StreamCompleted) => Len(Hints) = 1

\* C21 (amended): in interactive mode a completed stream leads to the end of
\* the program, with quitting set and status 0; the program that has ended
\* has printed one hint line, holding the model's task id, when an event
\* carried a task id, and no hint line when none did.
C21_CompletionQuitsWithHint ==
    /\ (StreamCompleted ~> (exited /\ exitCode = 0 /\ m.quitting))
    /\ [](exited => Hints = IF m.taskID # "" THEN <<HintLine(m.taskID)>> ELSE <<>>)
    /\ [](~exited => Hints = <<>>)
    /\ []((m.taskID # "") <=> (WithTaskID # {}))

\* C21 witness: the stream completed after two events, both were applied, the
\* program ended on the doneMsg and the hint holds the task id.
C21_Witness ==
    /\ ~disableTUI /\ exited /\ StreamCompleted /\ m.quitting
    /\ Len(applied) = 2 /\ Len(received) = 2
    /\ DoneMsg \notin pending /\ waiting = 0
    /\ stdout = <<HintLine("t1")>>

\* C22 (as claimed): the model's log never holds more than 15 entries.
C22_LogBounded == Len(m.messages) <= LogCapacity

\* The event of the saveArtifact call a step makes.
SavedEventRef == IF disableTUI THEN rawMsg.Event ELSE Last(applied')

\* Every Data part that would set the content can be serialized.
ContentProducible(parts) ==
    \A i \in 1..Len(parts) : parts[i].kind = "data" => MarshalIndent(parts[i].v).ok

\* C23 (as claimed): every saveArtifact call returns either a non-empty path
\* and no error, the file at the path then holding the content derived from
\* the parts, all of which could be produced; or an empty path and an error.
C23_AllOrNothing ==
    [][Len(saves') = Len(saves) + 1 =>
         LET r == Last(saves')
             parts == EventOf(SavedEventRef).parts
         IN  \/ /\ r.err = "" /\ r.path # Empty
                /\ r.path \in DOMAIN fs'
                /\ ContentProducible(parts)
                /\ fs'[r.path] = ContentBytes(parts, <<>>)
             \/ r.err # "" /\ r.path = Empty]_vars

\* ---- properties of saveArtifact
\* The parts saveArtifact's loop takes content from.
IsTextOrData(p) == p.kind \in {"text", "data"}

\* The indented JSON of the payload {"k": 1}.
IndentedObj == <<"{", "\n", " ", " ", "\"", "k", "\"", ":", " ", "1", "\n", "}">>

\* C24: the file a successful saveArtifact call leaves is decided by the last
\* Text or Data part alone: a Text part's text verbatim, a Data part's
\* indented JSON (nothing when the payload has none); it is empty when the
\* artifact has no such part.  Earlier parts and parts of other kinds
\* contribute nothing.
C24_LastPartWins ==
    \A i \in 1..Len(saves) :
        saves[i].err = "" =>
            LET used == SelectSeq(art.parts, IsTextOrData)
                file == fs[saves[i].path]
            IN  IF used = <<>> THEN file = <<>>
                ELSE IF Last(used).kind = "text" THEN file = Last(used).v
                ELSE IF Last(used).v = DataObj THEN file = IndentedObj
                ELSE file = <<>>

\* C24 witness: an artifact of a Text part, a Data part and a part of another
\* kind was saved and the file holds the Data part's indented JSON.
C24_Witness ==
    /\ art.parts = <<Text(Str_hello), Data(DataObj), URL(Str_dot)>>
    /\ Len(saves) = 1 /\ saves[1].err = ""
    /\ fs[saves[1].path] = IndentedObj

\* json.Unmarshal of a file's bytes into a payload: white space between
\* tokens is skipped, and the text must be one object of one member whose
\* key is a quoted string and whose value is a number; anything else, the
\* empty text included, is an error.
IsJSONSpace(c) == c \in {" ", "\n"}
NotJSONSpace(c) == ~IsJSONSpace(c)
Unmarshal(bytes) ==
    LET t == SelectSeq(bytes, NotJSONSpace)
    IN  IF /\ Len(t) = 7
           /\ t[1] = "{" /\ t[2] = "\"" /\ t[4] = "\"" /\ t[5] = ":" /\ t[7] = "}"
           /\ t[6] \in {"0", "1", "2", "3", "4", "5", "6", "7", "8", "9"}
        THEN [ok |-> TRUE, v |-> <<t[3], t[6]>>]
        ELSE [ok |-> FALSE, v |-> <<>>]

\* The artifact's last Text or Data part is a Data part.
LastPartIsData ==
    /\ SelectSeq(art.parts, IsTextOrData) # <<>>
    /\ Last(SelectSeq(art.parts, IsTextOrData)).kind = "data"
LastPayload == Last(SelectSeq(art.parts, IsTextOrData)).v

\* C25 (as claimed): the file a successful save of an artifact whose last
\* part is a Data part leaves parses back to the part's payload.
C25_RoundTrip ==
    \A i \in 1..Len(saves) :
        (saves[i].err = "" /\ LastPartIsData) =>
            /\ Unmarshal(fs[saves[i].path]).ok
            /\ Unmarshal(fs[saves[i].path]).v = LastPayload

\* The round trip of the payloads json.MarshalIndent accepts (no NaN or
\* infinite number in them).
RoundTripRepresentable ==
    \A i \in 1..Len(saves) :
        (saves[i].err = "" /\ LastPartIsData /\ LastPayload[2] # "N") =>
            /\ Unmarshal(fs[saves[i].path]).ok
            /\ Unmarshal(fs[saves[i].path]).v = LastPayload

\* C25 witness: an artifact of a Text part and then a Data part was saved and
\* the file parses back to the Data part's payload.
C25_Witness ==
    /\ art.parts = <<Text(Str_hello), Data(DataObj)>>
    /\ Len(saves) = 1 /\ saves[1].err = ""
    /\ Unmarshal(fs[saves[1].path]) = [ok |-> TRUE, v |-> DataObj]

\* C26: from the moment the error record of the stream is received, through
\* its handling in either mode and to the end of the session, no file is
\* created, removed or rewritten.
C26_ErrorKeepsFiles == [][ErrorReceived => fs' = fs]_vars

\* C26 witness: an artifact was saved, the stream then failed, and the error
\* was handled (raw mode exited with 1, the view holds the error) with the
\* file still in place.
C26_Witness ==
    /\ ErrorReceived
    /\ \/ disableTUI /\ exited /\ exitCode = 1
       \/ ~disableTUI /\ m.err # ""
    /\ Len(saves) = 1 /\ saves[1].err = ""
    /\ saves[1].path \in DOMAIN fs /\ fs[saves[1].path] = Str_hello

\* The raw session is over and its source ended without an error.
RawCompleted ==
    /\ disableTUI /\ exited
    /\ \A i \in 1..Len(src) : ~IsErr(src[i])

\* Scenario A's file: with an output directory and no output file, and no
\* directory or file operation failing, an encodable artifact update named
\* report.txt with the text hello leaves report.txt in the directory,
\* holding hello.
ReportFile ==
    (/\ outDir # Empty /\ outFile = Empty /\ FailedSaves = {}
     /\ \E i \in 1..Len(src) : src[i].Event = "report.txt") =>
        /\ Join(outDir, Str_report_txt) \in DOMAIN fs
        /\ fs[Join(outDir, Str_report_txt)] = Str_hello
        /\ \A p \in DOMAIN fs : fs[p] = Str_hello => p = Join(outDir, Str_report_txt)

\* C27 (as claimed): a raw session terminates, and one whose source ended
\* without error ends with the channel closed, every event of the source
\* emitted on stdout, exit code 0 and Scenario A's file in place.
C27_RawEmitsEveryEvent ==
    /\ <>exited
    /\ [](RawCompleted =>
            /\ closed /\ pumpPc = "done" /\ received = src
            /\ stdout = JSONLines(src)
            /\ exitCode = 0
            /\ ReportFile)

\* C27 (amended): the same, with every event json.Marshal encodes emitted on
\* stdout, in order, and one line on stderr for each event it refuses.
C27_RawSessionCompletes ==
    /\ <>exited
    /\ [](RawCompleted =>
            /\ closed /\ pumpPc = "done" /\ received = src
            /\ stdout = JSONLines(SelectSeq(src, Encodable))
            /\ Len(stderr) = Len(src) - Len(stdout)
            /\ exitCode = 0
            /\ ReportFile)

\* C27 witness: a status update, the artifact update report.txt and the
\* completing status update went through a raw session with an output
\* directory; it exited with 0, three lines on stdout and report.txt holding
\* hello.
C27_Witness ==
    /\ RawCompleted /\ exitCode = 0 /\ closed
    /\ outDir = Str_dir /\ outFile = Empty
    /\ src = <<StreamMsg("working", ""), StreamMsg("report.txt", ""),
               StreamMsg("completed", "")>>
    /\ Len(stdout) = 3
    /\ DOMAIN fs = {Join(Str_dir, Str_report_txt)}
    /\ fs[Join(Str_dir, Str_report_txt)] = Str_hello

\* C28: with --no-tui every line on stdout is a JSON serialization, whatever
\* the command and however far it got.
C28_OnlyJSONOnStdout ==
    disableTUI => \A i \in 1..Len(stdout) : stdout[i].line = "json"

\* C28 witness: a --no-tui command with a forced transport fetched a task
\* with artifacts, saved them, and its JSON is the one line on stdout.
C28_Witness ==
    /\ disableTUI /\ transport = Str_grpc /\ exited /\ exitCode = 0
    /\ command \in {"send --wait", "watch", "get"}
    /\ Len(saves) = 1 /\ saves[1].err = ""
    /\ stdout = <<JSONValueLine("task")>>

\* The SubscribeToTask requests sent so far.
Subscriptions == { i \in 1..Len(calls) : calls[i] = SubscribeCall }
\* The task's final result is on stdout: its JSON with --no-tui (when it can
\* be produced), the status line of the report otherwise.
ResultDisplayed ==
    IF disableTUI
    THEN stdout = IF TaskMarshalOk(task) THEN <<JSONValueLine("task")>> ELSE <<>>
    ELSE \E i \in 1..Len(stdout) : stdout[i] = Info("Task Status", task.state)

\* C29: watch subscribes only to a task that is not Completed, Failed or
\* Rejected: for such a fetched task the result is displayed, the command
\* returns and no pump or stream is ever started; for any other fetched task
\* exactly one subscription is opened, and none before the task is fetched.
C29_WatchStreamsOnlyActive ==
    command = "watch" =>
        /\ task = NoTask => (Subscriptions = {} /\ pumpPc = "none")
        /\ (task # NoTask /\ task.state \in TerminalStates) =>
              /\ Subscriptions = {} /\ pumpPc = "none" /\ src = <<>>
              /\ exited /\ exitCode = 0
              /\ ResultDisplayed
        /\ (task # NoTask /\ task.state \notin TerminalStates) =>
              /\ Cardinality(Subscriptions) = 1 /\ pumpPc # "none"

\* C29 witness: watch fetched a rejected task with two artifacts, saved both,
\* and returned with the service asked for the card and the task only.
C29_Witness ==
    /\ command = "watch" /\ task.state = "REJECTED" /\ Len(task.artifacts) = 2
    /\ exited /\ pumpPc = "none" /\ Len(saves) = 2
    /\ calls = <<ResolveCall, "GetTask">>

\* A second case of C29: watch found a canceled task, subscribed to it once
\* and its stream delivered an event.
C29_ActiveCase ==
    /\ command = "watch" /\ task.state = "CANCELED"
    /\ calls = <<ResolveCall, "GetTask", SubscribeCall>>
    /\ Len(received) = 1

\* The value the documented precedence gives a setting: the flag, else the
\* environment variable named after the setting, else the config file's value
\* for the selected environment, else the default.
Documented(inv, flag, var, setting, default) ==
    LET fileValue == FileValue(inv.file, <<"envs", ".", TargetEnv(inv), ".", setting>>)
    IN  IF flag # NotGiven THEN flag
        ELSE IF var \in DOMAIN inv.environ THEN inv.environ[var]
        ELSE IF fileValue # "" THEN fileValue
        ELSE default

\* C30 (as claimed): once initConfig has run, the service URL and the token
\* are those of the precedence flag > environment variable > config file >
\* default (for an environment holding no variable of a dotted name).
C30_Precedence ==
    (mainPc # "init" /\ Var_ENVS_DEFAULT_SERVICE_URL \notin DOMAIN invocation.environ) =>
        /\ serviceURL = Documented(invocation, invocation.urlFlag, Var_SERVICE_URL,
                                   "service_url", DefaultURL)
        /\ authToken = Documented(invocation, invocation.tokenFlag, Var_TOKEN, "token", "")

\* What does hold of the precedence: a flag given is never overridden, and
\* without the flag the config file's value for the selected environment,
\* when it has one, replaces the default.
FlagFileDefault ==
    (mainPc # "init" /\ Var_ENVS_DEFAULT_SERVICE_URL \notin DOMAIN invocation.environ) =>
        LET fileURL == FileValue(invocation.file,
                                 <<"envs", ".", TargetEnv(invocation), ".", "service_url">>)
        IN  serviceURL = IF invocation.urlFlag # NotGiven THEN invocation.urlFlag
                         ELSE IF fileURL # "" THEN fileURL
                         ELSE DefaultURL

\* C31: applying an event whose task id is empty leaves the model's task id
\* as it was.
C31_EmptyIDKeepsTaskID ==
    [][(applied' # applied /\ EventOf(Last(applied')).taskID = "")
          => m'.taskID = m.taskID]_vars

\* C31 witness: an event with task id t2 and then one with an empty task id
\* were applied, and the model still holds t2.
C31_Witness ==
    /\ Len(applied) = 2
    /\ EventOf(applied[1]).taskID = "t2" /\ EventOf(applied[2]).taskID = ""
    /\ m.taskID = "t2"

\* The status update's accompanying message holds a non-empty text part.
HasText(v) ==
    v.hasMsg /\ \E i \in 1..Len(v.parts) : v.parts[i].kind = "text" /\ v.parts[i].v # Empty

\* A StatusUpdate is applied in this step to a model whose status is not
\* terminal.
StatusApplied ==
    /\ applied' # applied
    /\ EventOf(Last(applied')).type = "status"
    /\ m.status \notin TerminalStates

\* C32 (as claimed): a StatusUpdate applied to a non-terminal model appends
\* exactly one "[<PHASE>] <text>" line when its message holds text in any
\* part, and nothing when the message is absent or has no text.
C32_StatusTextLogged ==
    [][StatusApplied =>
          LET v == EventOf(Last(applied'))
          IN  IF HasText(v)
              THEN /\ Len(m'.messages) = Len(m.messages) + 1
                   /\ Front(m'.messages) = m.messages
                   /\ Last(m'.messages).kind = "[%s] %s"
                   /\ Last(m'.messages).state = v.state
              ELSE m'.messages = m.messages]_vars

\* What does hold: the line is appended exactly when the message's first
\* part is a non-empty text, and carries that text.
StatusFirstPartLogged ==
    [][StatusApplied =>
          LET v == EventOf(Last(applied'))
          IN  IF v.hasMsg /\ Len(v.parts) > 0 /\ v.parts[1].kind = "text"
                 /\ v.parts[1].v # Empty
              THEN m'.messages = Append(m.messages, LogLine("[%s] %s", v.state, v.parts[1].v, ""))
              ELSE m'.messages = m.messages]_vars

\* The name the i-th artifact (0-based) goes to under the override out.json.
OverrideName(i) ==
    IF i = 0 THEN Str_out_json
    ELSE <<"o", "u", "t", "_">> \o Itoa(i) \o <<".", "j", "s", "o", "n">>
OverridePath(i) == IF outDir # Empty THEN outDir \o <<"/">> \o OverrideName(i) ELSE OverrideName(i)

\* A get, download or blocking send with --file has fetched its task and
\* gone through its artifacts.
OverrideSession ==
    /\ command \in {"get", "download", "send --wait"}
    /\ outFile = Str_out_json /\ task # NoTask /\ exited

\* C33: in such a session the i-th artifact is saved under out.json for
\* i = 0 and out_<i>.json for i > 0, the paths of the saves are pairwise
\* distinct, and every file written still holds the content of the artifact
\* it was written for.
C33_OverridePathsDistinct ==
    OverrideSession =>
        /\ Len(saves) = Len(task.artifacts)
        /\ \A i \in 1..Len(saves) :
              saves[i].err = "" =>
                  /\ saves[i].path = OverridePath(i - 1)
                  /\ fs[saves[i].path] = ContentBytes(EventOf(task.artifacts[i]).parts, <<>>)
        /\ \A i, j \in 1..Len(saves) :
              (i # j /\ saves[i].err = "" /\ saves[j].err = "") => saves[i].path # saves[j].path

\* C33 witness: a download with --out-dir and --file saved a task's two
\* artifacts to dir/out.json and dir/out_1.json.
C33_Witness ==
    /\ OverrideSession /\ command = "download" /\ outDir = Str_dir
    /\ Len(saves) = 2 /\ saves[1].err = "" /\ saves[2].err = ""
    /\ saves[1].path = Str_dir \o <<"/">> \o Str_out_json
    /\ saves[2].path = Str_dir \o <<"/", "o", "u", "t", "_", "1", ".", "j", "s", "o", "n">>
    /\ task.artifacts = <<"report.txt", "unnamed">>


\* ---- previews of long texts (tui.go 188-205, main.go 684-696) ----

\* The most two-byte characters a previewed text ends with.
MaxWide == 2

\* Lengths on both sides of the two preview limits.
PreviewLengths == {0, 1, 198, 199, 200, 201, 498, 499, 500, 501}

Repeat(c, n) == [i \in 1..n |-> c]

\* A text of n one-byte characters followed by k two-byte characters.
LongText(n, k) == Repeat("a", n) \o Repeat(TwoByte, k)

\* An artifact with one text part arrives; the interactive handler logs it and
\* the task-result display prints it.
PreviewInit ==
    /\ transport = Empty
    /\ card = {TransportProtocolJSONRPC}
    /\ mainPc = "wait"
    /\ selectedTransport = TransportProtocolJSONRPC
    /\ client = TransportOpt(TransportProtocolJSONRPC)
    /\ calls = <<ResolveCall>>
    /\ \E n \in PreviewLengths, k \in 0..MaxWide :
          art = Artifact(Str_report_txt, <<Text(LongText(n, k))>>)
    /\ command = "send"
    /\ task = NoTask
    /\ invocation = NoInvocation
    /\ serviceURL = DefaultURL
    /\ authToken = ""
    /\ disableTUI = TRUE
    /\ outDir = Empty
    /\ outFile = Empty
    /\ src = <<>>
    /\ pumpPc = "none"
    /\ pumpItem = NoItem
    /\ closed = FALSE
    /\ received = <<>>
    /\ rawPc = "off"
    /\ rawMsg = NoItem
    /\ waiting = 0
    /\ pending = {}
    /\ m = InitialModel
    /\ applied = <<>>
    /\ stdout = <<>>
    /\ stderr = <<>>
    /\ fs = [p \in {} |-> <<>>]
    /\ saves = <<>>
    /\ now = 0
    /\ exited = FALSE
    /\ exitCode = 0

\* handleArtifactUpdate with no destination configured.
LogArtifact ==
    /\ m.messages = <<>>
    /\ m' = HandleArtifactUpdate(m, art, FALSE, [path |-> Empty, err |-> ""])
    /\ UNCHANGED <<config, pumpVars, received, rawVars, waiting, pending, applied,
                   outVars, fsVars, exitVars>>

\* The preview loop of displayTaskResult over the artifact's parts.
ShowArtifact ==
    /\ stdout = <<>>
    /\ stdout' = DisplayPreviews(art.parts)
    /\ UNCHANGED <<config, pumpVars, received, rawVars, tuiVars, stderr,
                   fsVars, exitVars>>

PreviewNext == LogArtifact \/ ShowArtifact

PreviewSpec == PreviewInit /\ [][PreviewNext]_vars

\* The text of the previewed artifact, the preview the log holds and the
\* preview the task-result display printed.
PreviewedText == art.parts[1].v
LoggedPreview == m.messages[2].text
ShownPreview == stdout[1].preview

\* The preview the specification describes, counted in characters.
CharPreview(s, limit, marker) ==
    IF Len(s) <= limit THEN s ELSE SubSeq(s, 1, limit) \o marker

\* C34: the preview of a text is the text itself when it has at most limit
\* characters and its first limit characters followed by the truncation marker
\* otherwise, with limit 200 in the interactive log and 500 in the task-result
\* summary.
C34_PreviewByCharacters ==
    /\ m.messages # <<>>
          => LoggedPreview = CharPreview(PreviewedText, PreviewLimit, Str_ellipsis)
    /\ stdout # <<>>
          => ShownPreview = CharPreview(PreviewedText, DisplayPreviewLimit, Str_truncated)

\* The same holds of every text whose characters are all one byte long.
SingleByte(s) == \A i \in 1..Len(s) : Width(s[i]) = 1
PreviewOfSingleByteText ==
    SingleByte(PreviewedText) => C34_PreviewByCharacters


\* ---- the hand-off between the pump and the consumer (main.go 296-305) ----

\* The streaming session of either consumer with no destination configured:
\* every event is handled without a save.
HandOffNext ==
    \/ PumpYield \/ PumpEnd \/ PumpClose
    \/ RawRecv \/ RawError \/ RawEncodeFail \/ RawEvent \/ RawEnd
    \/ WaitRecv \/ WaitClosed
    \/ UpdateKey \/ UpdateDone \/ UpdateError \/ UpdateEvent
    \/ ProgramQuit

HandOffInit == Init /\ outDir = Empty /\ outFile = Empty

HandOffSpec == HandOffInit /\ [][HandOffNext]_vars

\* The items pulled from the client's sequence that no consumer has received.
InFlight == Len(src) - Len(received)

\* C35: at every moment at most one event has been pulled from the source and
\* not yet received by the consumer, and the consumer has received what the
\* source yielded, in its order: the pump never pulls the next item before the
\* previous one was handed over.
C35_BackPressure ==
    /\ InFlight \in {0, 1}
    /\ received = SubSeq(src, 1, Len(received))

\* The consumer is still busy with an event it received while the pump already
\* holds the next one.
C35_Witness ==
    /\ InFlight = 1
    /\ Len(received) >= 1
    /\ pumpPc = "send"
    /\ \/ rawPc = "body"
       \/ \E msg \in pending : msg.kind = "eventMsg"


\* ---- the program's receives on the stream channel (tui.go 67-149) ----

\* The last frame of the spinner and the widths a terminal reports.
MaxFrame == 1
Widths == {80}

\* Update on a tea.WindowSizeMsg (tui.go 93-95): the width is kept.
UpdateResize ==
    /\ ~exited /\ ~disableTUI
    /\ \E w \in Widths :
          /\ m.width # w
          /\ m' = [m EXCEPT !.width = w]
          /\ waiting' = waiting + Listens(WindowSizeMsg(w))
    /\ UNCHANGED <<config, pumpVars, received, rawVars, pending, applied, outVars,
                   fsVars, exitVars>>

\* Update on a spinner.TickMsg (tui.go 105-108): the spinner moves to its next
\* frame and asks for the next tick.
UpdateTick ==
    /\ ~exited /\ ~disableTUI
    /\ m' = [m EXCEPT !.spinner = (@ + 1) % (MaxFrame + 1)]
    /\ waiting' = waiting + Listens(TickMsg)
    /\ UNCHANGED <<config, pumpVars, received, rawVars, pending, applied, outVars,
                   fsVars, exitVars>>

\* The interactive session with no destination, where every event is handled
\* by UpdateEvent, the terminal resizing and the spinner ticking.
ReceiveInit == TUIInit /\ outFile = Empty

ReceiveNext ==
    \/ PumpYield \/ PumpEnd \/ PumpClose
    \/ WaitRecv \/ WaitClosed
    \/ UpdateKey \/ UpdateDone \/ UpdateError \/ UpdateEvent
    \/ UpdateResize \/ UpdateTick
    \/ ProgramQuit

ReceiveSpec == ReceiveInit /\ [][ReceiveNext]_vars

\* The eventMsg records sent to the program and not yet handled.
EventsPending == {msg \in pending : msg.kind = "eventMsg"}

\* C36: in interactive mode at most one receive on the stream channel is
\* outstanding, and at most one received record awaits its Update; a step
\* issues a receive only by applying a non-error event; none is outstanding
\* or issued once an error record was handled or the closed notification was
\* produced; and the events applied are the events received, in channel order.
C36_OneReceiveAtATime ==
    [][/\ waiting \in {0, 1} /\ waiting' \in {0, 1}
       /\ waiting' + Cardinality(EventsPending') <= 1
       /\ waiting' > waiting
             => /\ Len(applied') = Len(applied) + 1
                /\ \E msg \in EventsPending :
                      msg.item.Err = "" /\ msg.item.Event = Last(applied')
       /\ (m.err # "" \/ DoneMsg \in pending) => waiting' = 0
       /\ IsPrefix(applied', EventsReceived')]_vars

\* A second receive is outstanding after the first event was applied, the
\* terminal was resized and the spinner ticked.
C36_Witness ==
    /\ ~disableTUI /\ waiting = 1
    /\ Len(applied) >= 1
    /\ m.width # 0 /\ m.spinner # 0


\* ---- close(stream) (main.go 296-305, 348-357; tui.go 74-82) ----

\* C37 as stated: the channel is closed exactly once in every interleaving,
\* the consumer's exit on an error or on quit included, so a session that has
\* ended has closed it.
C37_ClosedExactlyOnce == exited => closed

\* C37: the channel is closed only by the pump's return, which is its last
\* step: it is closed exactly when the pump has finished, and then every item
\* the pump pulled has been handed over, so the close follows the last
\* completed send, nothing is sent on the closed channel, it is not closed a
\* second time and no consumer step closes it.
C37_ClosedOnlyByPumpReturn ==
    /\ closed <=> pumpPc = "done"
    /\ closed => InFlight = 0

\* The pump closed the channel after its sends while the consumer still runs.
C37_Witness ==
    /\ closed /\ ~exited
    /\ Len(received) >= 1


\* ---- model.View (tui.go 211-248) ----

\* A View that keeps the oldest entries of the log.
View_OldestFirst(md) ==
    IF md.err # ""
    THEN [error |-> md.err, history |-> <<>>, spin |-> FALSE, state |-> "",
          task |-> "", width |-> 0]
    ELSE [error |-> "",
          history |-> SubSeq(md.messages, 1,
                             IF Len(md.messages) > LogCapacity THEN LogCapacity
                             ELSE Len(md.messages)),
          spin |-> ~md.quitting,
          state |-> md.status,
          task |-> md.taskID,
          width |-> IF md.width - 4 < 0 THEN 0 ELSE md.width - 4]

\* model.View: the error alone when one is recorded; else the entries from
\* start on, the status line (spinner unless quitting, state, task id when
\* known) and the width less the margins.
View(md) ==
    IF md.err # ""
    THEN [error |-> md.err, history |-> <<>>, spin |-> FALSE, state |-> "",
          task |-> "", width |-> 0]
    ELSE LET start == IF Len(md.messages) > LogCapacity
                      THEN Len(md.messages) - LogCapacity
                      ELSE 0
         IN  [error |-> "",
              history |-> SubSeq(md.messages, start + 1, Len(md.messages)),
              spin |-> ~md.quitting,
              state |-> md.status,
              task |-> md.taskID,
              width |-> IF md.width - 4 < 0 THEN 0 ELSE md.width - 4]

\* Update on the eventMsg of a record carrying an error.
ApplyError ==
    /\ ~exited /\ m.err = ""
    /\ m' = [m EXCEPT !.err = ErrReset]
    /\ UNCHANGED <<config, pumpVars, received, rawVars, waiting, pending, applied,
                   outVars, fsVars, exitVars>>

\* Events are applied to the model until an error record is.
ViewNext == (m.err = "" /\ ApplyEvent) \/ ApplyError

ViewSpec == LogInit /\ [][ViewNext]_vars

\* C38: the view shows exactly the last min(15, n) of the n log entries, in
\* append order; when an error is recorded it shows the error and no history.
C38_ViewShowsLastEntries ==
    LET n == Len(m.messages)
        k == IF n < 15 THEN n ELSE 15
    IN  IF m.err # ""
        THEN View(m).error = m.err /\ View(m).history = <<>>
        ELSE /\ View(m).error = ""
             /\ View(m).history = [i \in 1..k |-> m.messages[n - k + i]]

\* The log holds more entries than the view shows.
C38_Witness ==
    /\ Len(m.messages) > LogCapacity /\ m.err = ""
    /\ View(m).history # m.messages


\* ---- the config command and the token (conformance_test.go 301-319) ----

\* The invocation that differs from inv only in the value of its non-empty
\* tokens: the --token flag when given, and every token the config file holds.
Retoken(inv, t) ==
    [inv EXCEPT !.tokenFlag = IF @ = NotGiven THEN @ ELSE t,
                !.file = IF @ = NoFile THEN @
                         ELSE [@ EXCEPT !.envs =
                                 [e \in DOMAIN @ |->
                                    [@[e] EXCEPT !.token = IF @ = "" THEN @ ELSE t]]]]

\* What the config command prints for an invocation.
ConfigRun(inv) ==
    ConfigOutput(inv,
                 Effective(inv, inv.urlFlag, "service_url", DefaultURL),
                 Effective(inv, inv.tokenFlag, "token", ""))

\* The token values the runs are compared under.
OtherTokens == {"s3cret", "file-token", "flag-token"}

\* C39: the output of the config command is that of every run that differs
\* only in the value of a non-empty token, it says <set> exactly when the token
\* is not empty, and no line holds the token's text.
C39_TokenValueNotShown ==
    (command = "config" /\ mainPc = "done") =>
        /\ \A t \in OtherTokens : ConfigRun(Retoken(invocation, t)) = stdout
        /\ stdout[4].arg = IF authToken # "" THEN "<set>" ELSE "<none>"
        /\ \A i \in 1..Len(stdout) : authToken # "" => stdout[i].arg # authToken

\* The config command ran with a token taken from the config file.
C39_Witness ==
    /\ command = "config" /\ mainPc = "done"
    /\ invocation.tokenFlag = NotGiven /\ authToken = "file-token"
    /\ stdout[4].arg = "<set>"

====
